---- MODULE Spec2Model ----
(***************************************************************************)
(* Model of src/src/metrics.py: the log-record parser (LOG_PATTERN,        *)
(* parse_line), the metrics aggregator (MetricsAnalyzer) and the derived   *)
(* statistics of CacheMetrics.                                             *)
(*                                                                         *)
(* Text is a sequence of one-character strings.  A latency (a Python       *)
(* float, in seconds) is an integer number of 1/LatDen seconds; the        *)
(* inputs carry at most three fractional digits, so every observation is   *)
(* an even number of units and the mean of two observations is exact.      *)
(* hit_ratio and error_rate are fractions <<numerator, denominator>>.      *)
(***************************************************************************)
EXTENDS Integers, Sequences, FiniteSets, TLC

VARIABLES
    heap,       \* the live CacheMetrics objects, by object identity
    metrics,    \* metrics[a]: the object self.metrics of analyzer a refers to
    returned,   \* returned[a]: the snapshots process_log_content returned to a's caller, oldest first
    retVal,     \* retVal[id]: the value snapshot id had when it was returned
    retText,    \* retText[id]: the text process_log_content was given when it returned snapshot id
    fed,        \* fed[a]: the lines given to process_log_line since a's aggregate was created
    nops,       \* number of calls made so far
    raised,     \* raised[a]: the exception a's latest call ended in, "none" when it returned
    feed,       \* incremental feeding: the text a caller feeds line by line
    exported,   \* the latest to_dict() result, with the aggregate it was taken from
    recLine,    \* record specification: the line given to parse_line
    recResult,  \* record specification: what parse_line returned for recLine
    obs,        \* statistics specification: the observation list
    stats,      \* statistics specification: the derived latencies of obs
    policy,     \* src/src/app.py: the CachePolicy to_header is called on
    header,     \* src/src/app.py: what to_header returned for policy
    appConfig,  \* src/src/app.py: app.config of the Flask application
    request,    \* src/src/app.py: the request being served
    response,   \* src/src/app.py: the response to request, <<>> before the view ran
    env,        \* src/src/config.py: os.environ, the variables that are set
    facade,     \* src/src/config.py: a ConfigFacade, its _app, _nginx and _metrics
    cfgReads,   \* cfgReads[sec]: the first and the latest object a read of sec returned
    cfgResult,  \* how the latest validate() call ended, <<>> before any call
    cfgOps,     \* number of configuration steps made so far
    report,     \* src/scripts/generate_report.py: how the latest report ended, <<>> before
    threads,    \* threads[t]: the process_log_line call thread t is in, <<>> without threads
    analysis    \* src/scripts/analyze_logs.py: the latest single run of main, <<>> before

metricsVars == <<heap, metrics, returned, retVal, retText, fed, nops, raised, feed,
                 exported, recLine, recResult, obs, stats>>
appVars == <<policy, header, appConfig, request, response>>

configVars == <<env, facade, cfgReads, cfgResult, cfgOps>>

reportVars == <<report>>

threadVars == <<threads>>

analyzeVars == <<analysis>>

vars == <<metricsVars, appVars, configVars, reportVars, threadVars, analyzeVars>>

----------------------------------------------------------------------------
(* Bounds *)

MaxOps == 3        \* calls per behaviour
MaxLines == 2      \* records per generated text
KeepSnaps == 2     \* snapshots the caller keeps per analyzer
MaxObs == 5        \* observations per list in the statistics specification
MaxCfgOps == 3     \* steps per behaviour of the configuration specification
MaxFold == 1       \* process_log_line calls per behaviour of the fold specification

----------------------------------------------------------------------------
(* Characters and character classes of the regular expression *)

Digit == {"0", "1", "2", "3", "4", "5", "6", "7", "8", "9"}

Upper == {"A", "B", "C", "D", "E", "F", "G", "H", "I", "J", "K", "L", "M",
          "N", "O", "P", "Q", "R", "S", "T", "U", "V", "W", "X", "Y", "Z"}

Lower == {"a", "b", "c", "d", "e", "f", "g", "h", "i", "j", "k", "l", "m",
          "n", "o", "p", "q", "r", "s", "t", "u", "v", "w", "x", "y", "z"}

\* str.strip() and the regex class \s: the whitespace characters
Whitespace == {" ", "\t", "\n", "\r", "\f"}

\* str.splitlines(): the characters that end a line ("\r\n" ends one line)
LineBreak == {"\n", "\r", "\f"}

\* A character class: the characters in set (neg = FALSE) or outside it
InClass(c, cls) == IF cls.neg THEN c \notin cls.set ELSE c \in cls.set

ClsIp == [neg |-> FALSE, set |-> Digit \cup {"."}]              \* [\d.]
ClsTime == [neg |-> TRUE, set |-> {"]"}]                        \* [^\]]
ClsWord == [neg |-> FALSE, set |-> Digit \cup Upper \cup Lower \cup {"_"}]  \* \w
ClsNonSpace == [neg |-> TRUE, set |-> Whitespace]               \* [^\s]
ClsNonQuote == [neg |-> TRUE, set |-> {"\""}]                   \* [^"]
ClsDigit == [neg |-> FALSE, set |-> Digit]                      \* \d

DigitVal(c) ==
    CASE c = "0" -> 0 [] c = "1" -> 1 [] c = "2" -> 2 [] c = "3" -> 3
      [] c = "4" -> 4 [] c = "5" -> 5 [] c = "6" -> 6 [] c = "7" -> 7
      [] c = "8" -> 8 [] c = "9" -> 9

----------------------------------------------------------------------------
(* String operations *)

\* s[i..j], empty when j < i
Sub(s, i, j) == IF j < i THEN <<>> ELSE SubSeq(s, i, j)

RECURSIVE LStripFrom(_, _)
LStripFrom(s, i) ==
    IF i <= Len(s) /\ s[i] \in Whitespace THEN LStripFrom(s, i + 1) ELSE i

RECURSIVE RStripFrom(_, _)
RStripFrom(s, j) ==
    IF j >= 1 /\ s[j] \in Whitespace THEN RStripFrom(s, j - 1) ELSE j

\* str.strip()
Strip(s) == Sub(s, LStripFrom(s, 1), RStripFrom(s, Len(s)))

\* F(x), with x evaluated once however often F uses it
Eager(x, F(_)) == CHOOSE r \in {F(v) : v \in {x}} : TRUE

\* The least element of a non-empty set of integers
Least(S) == CHOOSE j \in S : \A k \in S : j <= k

\* End of the line that starts at i: the index of its line break, or Len(s)+1
LineEnd(s, i) ==
    LET breaks == {j \in i..Len(s) : s[j] \in LineBreak}
    IN  IF breaks = {} THEN Len(s) + 1 ELSE Least(breaks)

RECURSIVE SplitFrom(_, _)
SplitFrom(s, i) ==
    IF i > Len(s) THEN <<>>
    ELSE LET e == LineEnd(s, i)
             n == IF e < Len(s) /\ s[e] = "\r" /\ s[e + 1] = "\n"
                  THEN e + 2 ELSE e + 1
         IN  <<Sub(s, i, e - 1)>> \o SplitFrom(s, n)

\* str.splitlines(): no line breaks kept, no empty last line
SplitLines(s) == SplitFrom(s, 1)

----------------------------------------------------------------------------
(* LOG_PATTERN *)

\* The pattern, left to right: a named group is a run of one class with a
\* minimum length, each followed by literal text.  The first character of
\* the literal after a group is never in the group's class, so the greedy
\* run is the only way the group can match and no backtracking occurs.
LOG_PATTERN ==
    << [grp |-> "ip", cls |-> ClsIp, min |-> 1],
       [lit |-> <<" ", "-", " ", "[">>],
       [grp |-> "time", cls |-> ClsTime, min |-> 1],
       [lit |-> <<"]", " ", "\"">>],
       [grp |-> "method", cls |-> ClsWord, min |-> 1],
       [lit |-> <<" ">>],
       [grp |-> "path", cls |-> ClsNonSpace, min |-> 1],
       [lit |-> <<" ">>],
       [grp |-> "protocol", cls |-> ClsNonQuote, min |-> 1],
       [lit |-> <<"\"", " ">>],
       [grp |-> "status", cls |-> ClsDigit, min |-> 1],
       [lit |-> <<" ">>],
       [grp |-> "bytes", cls |-> ClsDigit, min |-> 1],
       [lit |-> <<" ">>],
       [grp |-> "latency", cls |-> ClsIp, min |-> 1],
       [lit |-> <<" ", "\"">>],
       [grp |-> "cache_status", cls |-> ClsNonQuote, min |-> 0],
       [lit |-> <<"\"">>] >>

IsGroup(item) == "grp" \in DOMAIN item

\* Index after the longest run of cls characters of s that starts at i
RunEnd(s, i, cls) ==
    LET stops == {j \in i..Len(s) : ~InClass(s[j], cls)}
    IN  IF stops = {} THEN Len(s) + 1 ELSE Least(stops)

None == [ok |-> FALSE]

\* Match items k.. of the pattern against s from index i; groups holds the
\* groups captured so far.  The pattern is anchored at the start only.
RECURSIVE MatchFrom(_, _, _, _)
MatchFrom(s, i, k, groups) ==
    IF k > Len(LOG_PATTERN) THEN [ok |-> TRUE, groups |-> groups]
    ELSE LET item == LOG_PATTERN[k] IN
         IF IsGroup(item)
         THEN Eager(RunEnd(s, i, item.cls),
                    LAMBDA e :
                        IF e - i < item.min THEN None
                        ELSE MatchFrom(s, e, k + 1,
                                       groups @@ (item.grp :> Sub(s, i, e - 1))))
         ELSE LET n == Len(item.lit) IN
              IF i + n - 1 <= Len(s) /\ Sub(s, i, i + n - 1) = item.lit
              THEN MatchFrom(s, i + n, k + 1, groups)
              ELSE None

\* LOG_PATTERN.match(s)
Match(s) == MatchFrom(s, 1, 1, <<>>)

----------------------------------------------------------------------------
(* Numeric conversions *)

LatDen == 2000     \* latency units per second

\* int(digits) raises ValueError for a run of more than sys.int_max_str_digits
\* digits (4300 unless the interpreter is configured otherwise)
IntMaxStrDigits == 4300
IntRaises(ds) == Len(ds) > IntMaxStrDigits

\* int(digits) for a non-empty run of digits within the limit
RECURSIVE ParseInt(_)
ParseInt(ds) ==
    IF ds = <<>> THEN 0
    ELSE 10 * ParseInt(Sub(ds, 1, Len(ds) - 1)) + DigitVal(ds[Len(ds)])

RECURSIVE Pow10(_)
Pow10(k) == IF k = 0 THEN 1 ELSE 10 * Pow10(k - 1)

\* The positions of "." in tok
DotsOf(tok) == {i \in 1..Len(tok) : tok[i] = "."}

\* float(tok) for a run of digits and dots: ValueError (ok = FALSE) unless
\* tok has at most one dot and at least one digit; otherwise the decimal
\* value, in units of 1/LatDen second
ParseFloat(tok) ==
    LET dots == DotsOf(tok) IN
    IF Cardinality(dots) > 1 \/ Cardinality(dots) = Len(tok)
    THEN [ok |-> FALSE]
    ELSE LET d == IF dots = {} THEN Len(tok) + 1 ELSE CHOOSE i \in dots : TRUE
             ip == Sub(tok, 1, d - 1)
             fp == Sub(tok, d + 1, Len(tok))
         IN  [ok |-> TRUE,
              val |-> ParseInt(ip) * LatDen + (ParseInt(fp) * LatDen) \div Pow10(Len(fp))]

----------------------------------------------------------------------------
(* Record parser *)

\* MetricsAnalyzer.parse_line: the groups of the match as text, or None
parse_line(line) == Eager(Strip(line), Match)

\* Python values with their type
PyStr(chars) == [type |-> "str", val |-> chars]
PyInt(n) == [type |-> "int", val |-> n]
PyFloat(x) == [type |-> "float", val |-> x]
PyNone == [type |-> "NoneType"]

\* Variant: the numeric groups are converted by the parser
groupdict_converted(groups) ==
    [g \in DOMAIN groups |->
        IF g \in {"status", "bytes"} /\ ~IntRaises(groups[g]) THEN PyInt(ParseInt(groups[g]))
        ELSE IF g = "latency" /\ ParseFloat(groups[g]).ok
             THEN PyFloat(ParseFloat(groups[g]).val)
             ELSE PyStr(groups[g])]

\* match.groupdict(): every named group as a str
groupdict(groups) == [g \in DOMAIN groups |-> PyStr(groups[g])]

----------------------------------------------------------------------------
(* CacheMetrics *)

\* CacheMetrics(): the dataclass defaults and __post_init__
CacheMetrics ==
    [total_requests |-> 0, cache_hits |-> 0, cache_misses |-> 0,
     cache_bypass |-> 0, cache_stale |-> 0, cache_updating |-> 0,
     cache_revalidated |-> 0, error_5xx |-> 0, error_4xx |-> 0,
     total_bytes |-> 0, latencies |-> <<>>]

\* Fractions
Frac(n, d) == <<n, d>>
Zero == Frac(0, 1)

\* Variant: the zero guard tests total_requests
hit_ratio_guardtotal(m) ==
    IF m.total_requests = 0 THEN Zero
    ELSE Frac(m.cache_hits, m.cache_hits + m.cache_misses)

\* Variant: hits over all requests
hit_ratio_overall(m) ==
    IF m.total_requests = 0 THEN Zero ELSE Frac(m.cache_hits, m.total_requests)

hit_ratio(m) ==
    LET total == m.cache_hits + m.cache_misses IN
    IF total = 0 THEN Zero ELSE Frac(m.cache_hits, total)

\* Variant: no zero guard
error_rate_noguard(m) == Frac(m.error_5xx + m.error_4xx, m.total_requests)

error_rate(m) ==
    IF m.total_requests = 0 THEN Zero
    ELSE Frac(m.error_5xx + m.error_4xx, m.total_requests)

\* sorted(xs), ascending: position i holds the value v with fewer than i
\* elements below it and at least i elements not above it
sorted(xs) ==
    [i \in 1..Len(xs) |->
        CHOOSE v \in {xs[j] : j \in 1..Len(xs)} :
            /\ Cardinality({j \in 1..Len(xs) : xs[j] < v}) < i
            /\ i <= Cardinality({j \in 1..Len(xs) : xs[j] <= v})]

\* statistics.median of a non-empty list
median(xs) ==
    LET s == sorted(xs)
        n == Len(s)
        i == n \div 2
    IN  IF n % 2 = 1 THEN s[i + 1] ELSE (s[i] + s[i + 1]) \div 2

p50_latency(m) == IF m.latencies = <<>> THEN 0 ELSE median(m.latencies)

\* Variant: the nearest index in place of the floor
Idx95_round(n) == (n * 95 + 50) \div 100

\* Variant: 0.90 in place of 0.99
Idx99_ninety(n) == (n * 90) \div 100

\* int(n * 0.95) and int(n * 0.99): for the list lengths of the model the
\* double product truncates to the floor of the exact product
Idx95(n) == (n * 95) \div 100
Idx99(n) == (n * 99) \div 100

\* sorted_lat[idx] if idx < len(sorted_lat) else sorted_lat[-1]  (idx from 0)
AtOrLast(s, idx) == IF idx < Len(s) THEN s[idx + 1] ELSE s[Len(s)]

p95_latency(m) ==
    IF m.latencies = <<>> THEN 0
    ELSE LET sorted_lat == sorted(m.latencies)
         IN  AtOrLast(sorted_lat, Idx95(Len(sorted_lat)))

p99_latency(m) ==
    IF m.latencies = <<>> THEN 0
    ELSE LET sorted_lat == sorted(m.latencies)
         IN  AtOrLast(sorted_lat, Idx99(Len(sorted_lat)))

\* Variant: latencies holds the number of requests
to_dict_requests(m) ==
    [m EXCEPT !.latencies = m.total_requests]
      @@ [hit_ratio |-> hit_ratio(m), error_rate |-> error_rate(m),
          p50_latency |-> p50_latency(m), p95_latency |-> p95_latency(m),
          p99_latency |-> p99_latency(m)]

\* CacheMetrics.to_dict: asdict(self), the observation list replaced by its
\* length, and the five derived statistics
to_dict(m) ==
    LET data == [m EXCEPT !.latencies = Len(m.latencies)]
    IN  data @@ [hit_ratio |-> hit_ratio(m), error_rate |-> error_rate(m),
                 p50_latency |-> p50_latency(m), p95_latency |-> p95_latency(m),
                 p99_latency |-> p99_latency(m)]

----------------------------------------------------------------------------
(* Folding one line: MetricsAnalyzer.process_log_line on an aggregate m *)

HIT == <<"H", "I", "T">>
MISS == <<"M", "I", "S", "S">>
BYPASS == <<"B", "Y", "P", "A", "S", "S">>
STALE == <<"S", "T", "A", "L", "E">>
UPDATING == <<"U", "P", "D", "A", "T", "I", "N", "G">>
REVALIDATED == <<"R", "E", "V", "A", "L", "I", "D", "A", "T", "E", "D">>

\* Variant: the MISS branch is missing
CacheStatusCounter_nomiss(cache_status) ==
    CASE cache_status = HIT -> "cache_hits"
      [] cache_status = BYPASS -> "cache_bypass"
      [] cache_status = STALE -> "cache_stale"
      [] cache_status = UPDATING -> "cache_updating"
      [] cache_status = REVALIDATED -> "cache_revalidated"
      [] OTHER -> "none"

\* The if/elif chain on the trimmed cache status: the counter it raises
CacheStatusCounter(cache_status) ==
    CASE cache_status = HIT -> "cache_hits"
      [] cache_status = MISS -> "cache_misses"
      [] cache_status = BYPASS -> "cache_bypass"
      [] cache_status = STALE -> "cache_stale"
      [] cache_status = UPDATING -> "cache_updating"
      [] cache_status = REVALIDATED -> "cache_revalidated"
      [] OTHER -> "none"

\* Variant: the classes have no upper limit
StatusCounter_noupper(status) ==
    IF 500 <= status THEN "error_5xx"
    ELSE IF 400 <= status THEN "error_4xx"
    ELSE "none"

\* The if/elif on the status code: the counter it raises
StatusCounter(status) ==
    IF 500 <= status /\ status < 600 THEN "error_5xx"
    ELSE IF 400 <= status /\ status < 500 THEN "error_4xx"
    ELSE "none"

\* Variant: the counter is lowered by one
Bump_lower(m, counter) ==
    IF counter = "none" THEN m ELSE [m EXCEPT ![counter] = @ - 1]

\* counter += 1
Bump(m, counter) ==
    IF counter = "none" THEN m ELSE [m EXCEPT ![counter] = @ + 1]

----------------------------------------------------------------------------
(* Inputs *)

Prefix == <<"1", ".", "1", " ", "-", " ", "[", "t", "]", " ",
            "\"", "G", "E", "T", " ", "/", " ", "H", "\"", " ">>

\* 1.1 - [t] "GET / H" <status> <bytes> <latency> "<tag>"
RecLine(status, bytes, latency, tag) ==
    Prefix \o status \o <<" ">> \o bytes \o <<" ">> \o latency
           \o <<" ", "\"">> \o tag \o <<"\"">>

LHit == RecLine(<<"2", "0", "0">>, <<"1", "0">>, <<"0", ".", "0", "5", "0">>, HIT)
LMiss404 == RecLine(<<"4", "0", "4">>, <<"5">>, <<"0", ".", "1", "2", "0">>, MISS)
LBadLat == RecLine(<<"2", "0", "0">>, <<"1", "0", "0">>, <<"1", ".", "2", ".", "3">>, HIT)
LBypass == RecLine(<<"5", "0", "0">>, <<"7">>, <<"0", ".", "2">>, BYPASS)
LNotANumber == RecLine(<<"2", "0", "0">>, <<"1", "0", "0">>,
                       <<"n", "o", "t", "a", "n", "u", "m", "b", "e", "r">>, HIT)
LUntagged == RecLine(<<"3", "9", "9">>, <<"1">>, <<".", "5">>, <<>>)
LRevalidated == RecLine(<<"6", "0", "0">>, <<"4">>, <<"2">>, REVALIDATED)
LPadded == <<" ", "\t">>
           \o RecLine(<<"2", "0", "0">>, <<"0">>, <<"0", ".", "0", "0", "1">>,
                      <<" ">> \o HIT \o <<" ">>)
           \o <<" ", "x">>
LBlank == <<" ", "\t">>

Rep(v, n) == [i \in 1..n |-> v]

\* Records whose bytes or status is a run of IntMaxStrDigits + 1 digits
LBigBytes == RecLine(<<"4", "0", "4">>, Rep("1", IntMaxStrDigits + 1),
                     <<"0", ".", "0", "5", "0">>, HIT)
LBigStatus == RecLine(Rep("5", IntMaxStrDigits + 1), <<"7">>,
                      <<"0", ".", "0", "5", "0">>, MISS)
LBanner == <<"l", "o", "g", " ", "r", "o", "t", "a", "t", "e", "d">>

\* The lines given to process_log_line
Lines == {LHit, LMiss404, LBadLat, LBypass, LNotANumber, LUntagged, LRevalidated,
          LPadded}

\* The lines the generated texts are made of
TextLines == {LHit, LMiss404}

RECURSIVE SeqsUpTo(_, _)
SeqsUpTo(S, n) ==
    IF n = 0 THEN {<<>>}
    ELSE LET shorter == SeqsUpTo(S, n - 1)
         IN  shorter \cup {Append(q, x) : q \in shorter, x \in S}

\* The lines of ls, each ended by a newline
RECURSIVE Join(_)
Join(ls) == IF ls = <<>> THEN <<>> ELSE Head(ls) \o <<"\n">> \o Join(Tail(ls))

\* Texts whose lines are all empty after trimming
BlankTexts == {<<>>, <<"\n">>, <<" ", "\r", "\n", "\t", "\n", "\n", " ">>}

\* Texts with other line breaks, blank lines and no final line break
MixedText == LHit \o <<"\r", "\n", "\r", "\n">> \o LMiss404 \o <<"\f">> \o LBanner
                  \o <<"\r">> \o LBypass \o <<"\n", " ", "\n">> \o LBadLat
MixedTexts == {MixedText, LBlank \o <<"\n">> \o LPadded, Join(<<LBadLat, LNotANumber>>)}

Texts == {Join(ls) : ls \in SeqsUpTo(TextLines, MaxLines)} \cup BlankTexts
         \cup MixedTexts \cup {Join(<<LMiss404, LBadLat>>)}

\* Records over a few values of each numeric field and of the tag, and lines
\* that are no record
RecStatuses == {<<"2", "0", "0">>, <<"4", "0", "4">>, <<"5", "0", "0">>}
RecBytes == {<<"0">>, <<"1", "0", "0">>}
RecLatencies == {<<"0", ".", "0", "5", "0">>, <<"1", ".", "2", ".", "3">>, <<".", "5">>}
RecTags == {HIT, MISS, <<>>, <<" ">> \o HIT \o <<" ">>}
RecordLines ==
    {RecLine(st, by, la, tg) : st \in RecStatuses, by \in RecBytes,
                               la \in RecLatencies, tg \in RecTags}
    \cup {LNotANumber, LBanner, LBlank, LPadded, <<>>}

\* Records over the status classes and their edges, the six tags and tags
\* that are none of them, latency tokens that convert and that do not; and
\* lines that are no record
FoldStatuses == {<<"0">>, <<"2", "0", "0">>, <<"3", "9", "9">>, <<"4", "0", "0">>, <<"4", "9", "9">>, <<"5", "0", "0">>, <<"5", "9", "9">>, <<"6", "0", "0">>, <<"1", "0", "0", "0">>}
FoldTags == {HIT, MISS, BYPASS, STALE, UPDATING, REVALIDATED, <<>>, <<" ">>,
             <<" ">> \o HIT \o <<" ">>, <<"\t">> \o MISS, <<"h", "i", "t">>, <<"M", "i", "s", "s">>, <<"E", "X", "P", "I", "R", "E", "D">>,
             <<"H", "I", "T", " ", "M", "I", "S", "S">>}
FoldLatencies == {<<"0", ".", "0", "5", "0">>, <<"1", ".", "2", ".", "3">>, <<".">>}
FoldRecords ==
    {RecLine(st, <<"7">>, la, tg) : st \in FoldStatuses, la \in FoldLatencies,
                                   tg \in FoldTags}
NoRecords ==
    {<<>>, LBlank, LBanner, LNotANumber,
     RecLine(<<"2", "0", "x">>, <<"7">>, <<"0", ".", "0", "5", "0">>, HIT),
     RecLine(<<"2", "0", "0">>, <<"-", "7">>, <<"0", ".", "0", "5", "0">>, HIT),
     Prefix \o <<"2", "0", "0", " ", "7", " ", "0", ".", "0", "5", "0", " ", "H", "I", "T">>,
     <<"x">> \o LHit}
FoldLines == FoldRecords \cup NoRecords

\* Lines and texts with long digit runs
DigitLines == {LHit, LBypass, LBigBytes, LBigStatus}
DigitTexts == {Join(<<LHit, LBigBytes, LMiss404>>), Join(<<LHit, LMiss404>>),
               LBlank \o <<"\n">> \o LBigStatus}

Analyzers == {1}

Range(f) == {f[x] : x \in DOMAIN f}

\* splitlines on the input texts, evaluated once
SplitMemo == [t \in Texts \cup DigitTexts |-> SplitLines(t)]

\* Every line the model hands to the parser
AllLines == Lines \cup DigitLines \cup RecordLines \cup FoldLines
            \cup UNION {Range(lines) : lines \in Range(SplitMemo)}

\* parse_line on the input lines, evaluated once
ParseMemo == [line \in AllLines |-> parse_line(line)]

\* The groups of the lines that match
AllGroups == {p.groups : p \in {q \in Range(ParseMemo) : q.ok}}

\* int, float and strip on the groups they are applied to, evaluated once
IntMemo == [tok \in {t \in UNION {{g.status, g.bytes} : g \in AllGroups} : ~IntRaises(t)}
                |-> ParseInt(tok)]
FloatMemo == [tok \in {g.latency : g \in AllGroups} |-> ParseFloat(tok)]
StripMemo == [tag \in {g.cache_status : g \in AllGroups} |-> Strip(tag)]

----------------------------------------------------------------------------
(* Folding a line into an aggregate *)

\* Variant: a latency that fails conversion is recorded as 0.0
AddLatency_zero(m, tok) ==
    Eager(FloatMemo[tok],
          LAMBDA f : [m EXCEPT !.latencies = Append(@, IF f.ok THEN f.val ELSE 0)])

\* try: latencies.append(float(latency)) except ValueError: pass
AddLatency(m, tok) ==
    Eager(FloatMemo[tok],
          LAMBDA f : IF f.ok THEN [m EXCEPT !.latencies = Append(@, f.val)] ELSE m)

\* Variant: the latency is converted first and a failure skips the record
FoldRecord_latencyfirst(m, groups) ==
    IF ~FloatMemo[groups.latency].ok THEN m
    ELSE LET m1 == [m EXCEPT !.total_requests = @ + 1]
             m2 == Bump(m1, CacheStatusCounter(StripMemo[groups.cache_status]))
             m3 == Bump(m2, StatusCounter(IntMemo[groups.status]))
             m4 == [m3 EXCEPT !.total_bytes = @ + IntMemo[groups.bytes]]
         IN  AddLatency(m4, groups.latency)

\* Variant: two independent tests, status >= 400 and status >= 500
FoldRecord_botherrors(m, groups) ==
    LET status == IntMemo[groups.status]
        m1 == [m EXCEPT !.total_requests = @ + 1]
        m2 == Bump(m1, CacheStatusCounter(StripMemo[groups.cache_status]))
        m3 == Bump(m2, IF status >= 500 THEN "error_5xx" ELSE "none")
        m3b == Bump(m3, IF status >= 400 THEN "error_4xx" ELSE "none")
        m4 == [m3b EXCEPT !.total_bytes = @ + IntMemo[groups.bytes]]
    IN  AddLatency(m4, groups.latency)

\* The body of process_log_line after a successful parse.  The statements
\* run in order, and int(status) or int(bytes) raising ValueError ends the
\* call with the updates made so far
FoldRecord(m, groups) ==
    LET m1 == [m EXCEPT !.total_requests = @ + 1]
        m2 == Bump(m1, CacheStatusCounter(StripMemo[groups.cache_status]))
    IN  IF IntRaises(groups.status) THEN m2
        ELSE LET m3 == Bump(m2, StatusCounter(IntMemo[groups.status])) IN
             IF IntRaises(groups.bytes) THEN m3
             ELSE LET m4 == [m3 EXCEPT !.total_bytes = @ + IntMemo[groups.bytes]]
                  IN  AddLatency(m4, groups.latency)

\* process_log_line ends in ValueError on the record
Raises(groups) == IntRaises(groups.status) \/ IntRaises(groups.bytes)

\* Variant: a line that does not parse is counted as a request
FoldLine_countall(m, line) ==
    Eager(ParseMemo[line],
          LAMBDA parsed : IF ~parsed.ok THEN [m EXCEPT !.total_requests = @ + 1]
                          ELSE FoldRecord(m, parsed.groups))

\* process_log_line on an aggregate: a line that does not parse changes nothing
FoldLine(m, line) ==
    Eager(ParseMemo[line],
          LAMBDA parsed : IF ~parsed.ok THEN m ELSE FoldRecord(m, parsed.groups))

\* process_log_line ends in ValueError on the line
LineRaises(line) ==
    Eager(ParseMemo[line], LAMBDA parsed : parsed.ok /\ Raises(parsed.groups))

----------------------------------------------------------------------------
(* The heap: CacheMetrics objects by identity *)

\* A new object identity
NewId(h) == CHOOSE i \in 1..(Cardinality(DOMAIN h) + 1) :
                i \notin DOMAIN h /\ \A j \in 1..(i - 1) : j \in DOMAIN h

\* Variant: the aggregate is not replaced
ResetMetrics_keep(h, ms, a) == [heap |-> h, metrics |-> ms]

\* self.metrics = CacheMetrics(): a new object becomes a's aggregate
ResetMetrics(h, ms, a) ==
    LET id == NewId(h) IN
    [heap |-> h @@ (id :> CacheMetrics), metrics |-> [ms EXCEPT ![a] = id]]

\* self.process_log_line(line): updates the object self.metrics refers to
process_log_line(h, ref, line) == [h EXCEPT ![ref] = FoldLine(@, line)]

\* for line in content.splitlines(): if line.strip(): self.process_log_line(line)
\* The loop ends at the first line on which process_log_line raises
RECURSIVE ProcessLines_stopblank(_, _, _, _)
RECURSIVE ProcessLines(_, _, _, _)

\* Variant: a blank line ends the loop
ProcessLines_stopblank(h, ref, lines, k) ==
    IF k > Len(lines) \/ Strip(lines[k]) = <<>> THEN h
    ELSE Eager(process_log_line(h, ref, lines[k]),
               LAMBDA h2 : IF LineRaises(lines[k]) THEN h2
                           ELSE ProcessLines_stopblank(h2, ref, lines, k + 1))

ProcessLines(h, ref, lines, k) ==
    IF k > Len(lines) THEN h
    ELSE IF Strip(lines[k]) # <<>>
         THEN Eager(process_log_line(h, ref, lines[k]),
                    LAMBDA h2 : IF LineRaises(lines[k]) THEN h2
                                ELSE ProcessLines(h2, ref, lines, k + 1))
         ELSE ProcessLines(h, ref, lines, k + 1)

\* The loop over lines ends in ValueError
ContentRaises(lines) ==
    \E k \in 1..Len(lines) : Strip(lines[k]) # <<>> /\ LineRaises(lines[k])

\* Variant: the caller receives a copy of the aggregate
ReturnMetrics_copy(h, ref) ==
    LET id == NewId(h) IN [heap |-> h @@ (id :> h[ref]), ref |-> id]

\* return self.metrics: the caller receives the aggregate itself
ReturnMetrics(h, ref) == [heap |-> h, ref |-> ref]

\* The objects still referred to by an analyzer or by a caller
Live(ms, rets) == Range(ms) \cup UNION {Range(rets[a]) : a \in DOMAIN rets}

\* The snapshots some caller still holds
Returned(rets) == UNION {Range(rets[a]) : a \in DOMAIN rets}

Restrict(f, S) == [x \in S \cap DOMAIN f |-> f[x]]

\* The caller keeps the latest KeepSnaps snapshots of each analyzer
Keep(s) == IF Len(s) > KeepSnaps THEN SubSeq(s, Len(s) - KeepSnaps + 1, Len(s)) ELSE s

----------------------------------------------------------------------------
(* The aggregator *)

\* No ConfigFacade
ConfigIdle ==
    env = <<>> /\ facade = <<>> /\ cfgReads = <<>> /\ cfgResult = <<>> /\ cfgOps = 0

\* No request being served
RequestIdle == appConfig = <<>> /\ request = <<>> /\ response = <<>>

\* No CachePolicy under test, no request being served
AppIdle == policy = <<>> /\ header = <<>> /\ RequestIdle

\* No report generated
ReportIdle == report = <<>>

\* No concurrent process_log_line calls
ThreadsIdle == threads = <<>>

\* No run of analyze_logs.py
AnalyzeIdle == analysis = <<>>

\* Nothing but the metrics module in use
OthersIdle == AppIdle /\ ConfigIdle /\ ReportIdle /\ ThreadsIdle /\ AnalyzeIdle

\* Variant: metrics is a class attribute, one aggregate for every analyzer
InitOver_shared(As) ==
    /\ heap = <<CacheMetrics>>
    /\ metrics = [a \in As |-> 1]
    /\ returned = [a \in As |-> <<>>]
    /\ retVal = <<>>
    /\ retText = <<>>
    /\ fed = [a \in As |-> <<>>]
    /\ nops = 0
    /\ raised = [a \in As |-> "none"]
    /\ exported = <<>>
    /\ recLine = <<>>
    /\ recResult = <<>>
    /\ obs = <<>>
    /\ stats = <<>>
    /\ OthersIdle

\* After construction: each analyzer owns a zeroed aggregate
InitOver(As) ==
    /\ heap = [a \in As |-> CacheMetrics]
    /\ metrics = [a \in As |-> a]
    /\ returned = [a \in As |-> <<>>]
    /\ retVal = <<>>
    /\ retText = <<>>
    /\ fed = [a \in As |-> <<>>]
    /\ nops = 0
    /\ raised = [a \in As |-> "none"]
    /\ exported = <<>>
    /\ recLine = <<>>
    /\ recResult = <<>>
    /\ obs = <<>>
    /\ stats = <<>>
    /\ OthersIdle

\* MetricsAnalyzer.process_log_content(content) on analyzer a: the aggregate
\* is replaced, the lines are folded and the aggregate is returned; when a
\* line raises, the call ends there and returns nothing
ProcessLogContent(a, content) ==
    /\ nops < MaxOps
    /\ \E r \in {ResetMetrics(heap, metrics, a)}, lines \in {SplitMemo[content]} :
       \E h \in {ProcessLines(r.heap, r.metrics[a], lines, 1)} :
           IF ContentRaises(lines)
           THEN /\ heap' = Restrict(h, Live(r.metrics, returned))
                /\ metrics' = r.metrics
                /\ raised' = [raised EXCEPT ![a] = "ValueError"]
                /\ UNCHANGED <<returned, retVal, retText>>
           ELSE \E out \in {ReturnMetrics(h, r.metrics[a])} :
                \E rets \in {[returned EXCEPT ![a] = Keep(Append(@, out.ref))]} :
                    /\ heap' = Restrict(out.heap, Live(r.metrics, rets))
                    /\ metrics' = r.metrics
                    /\ returned' = rets
                    /\ retVal' = (out.ref :> out.heap[out.ref])
                                 @@ Restrict(retVal, Returned(rets))
                    /\ retText' = (out.ref :> content)
                                  @@ Restrict(retText, Returned(rets))
                    /\ raised' = [raised EXCEPT ![a] = "none"]
    /\ fed' = [fed EXCEPT ![a] = <<>>]
    /\ nops' = nops + 1
    /\ UNCHANGED <<feed, exported, recLine, recResult, obs, stats>>
    /\ UNCHANGED <<appVars, configVars, reportVars, threadVars, analyzeVars>>

\* One call of process_log_line(line) on analyzer a
LineCall(a, line) ==
    /\ heap' = process_log_line(heap, metrics[a], line)
    /\ raised' = [raised EXCEPT ![a] = IF LineRaises(line) THEN "ValueError" ELSE "none"]
    /\ fed' = [fed EXCEPT ![a] = Append(@, line)]
    /\ UNCHANGED <<metrics, returned, retVal, retText, feed, exported, recLine, recResult,
                   obs, stats>>
    /\ UNCHANGED <<appVars, configVars, reportVars, threadVars, analyzeVars>>

\* MetricsAnalyzer.process_log_line(line) on analyzer a
ProcessLogLine(a, line) ==
    /\ nops < MaxOps
    /\ LineCall(a, line)
    /\ nops' = nops + 1

Init == InitOver(Analyzers) /\ feed = <<>>

Next ==
    \/ \E a \in Analyzers, content \in Texts : ProcessLogContent(a, content)
    \/ \E a \in Analyzers, line \in Lines : ProcessLogLine(a, line)

Spec == Init /\ [][Next]_vars

----------------------------------------------------------------------------
(* Two analyzers, on fewer inputs *)

TwoAnalyzers == {1, 2}
TwoTexts == {Join(ls) : ls \in SeqsUpTo({LHit}, MaxLines)}
            \cup {<<"\n">>, Join(<<LMiss404, LBadLat>>)}
TwoLines == {LHit, LNotANumber}

InitTwo == InitOver(TwoAnalyzers) /\ feed = <<>>

NextTwo ==
    \/ \E a \in TwoAnalyzers, content \in TwoTexts : ProcessLogContent(a, content)
    \/ \E a \in TwoAnalyzers, line \in TwoLines : ProcessLogLine(a, line)

SpecTwo == InitTwo /\ [][NextTwo]_vars

----------------------------------------------------------------------------
(* One analyzer, on lines and texts with long digit runs *)

NextDigits ==
    \/ \E a \in Analyzers, content \in DigitTexts : ProcessLogContent(a, content)
    \/ \E a \in Analyzers, line \in DigitLines : ProcessLogLine(a, line)

SpecDigits == Init /\ [][NextDigits]_vars

----------------------------------------------------------------------------
(* One analyzer folding single lines into an empty or a filled aggregate *)

\* process_log_line(line) on analyzer a, at most MaxFold times per aggregate
FoldCall(a, line) ==
    /\ Len(fed[a]) < MaxFold
    /\ LineCall(a, line)
    /\ UNCHANGED nops

NextFold ==
    \/ \E a \in Analyzers : nops = 0 /\ fed[a] = <<>> /\ ProcessLogContent(a, MixedText)
    \/ \E a \in Analyzers, line \in FoldLines : FoldCall(a, line)

SpecFold == Init /\ [][NextFold]_vars

----------------------------------------------------------------------------
(* A text given as one block to one analyzer and line by line to another *)

Block == 1
Incremental == 2

FeedTexts == Texts \cup DigitTexts

InitFeed == InitOver({Block, Incremental}) /\ feed \in FeedTexts

\* for line in feed.splitlines(): analyzer.process_log_line(line), one
\* iteration; an exception ends the caller's loop
FeedLine(a) ==
    /\ raised[a] = "none"
    /\ \E lines \in {SplitMemo[feed]} :
          /\ Len(fed[a]) < Len(lines)
          /\ LineCall(a, lines[Len(fed[a]) + 1])
    /\ UNCHANGED nops

NextFeed ==
    \/ ProcessLogContent(Block, feed)
    \/ FeedLine(Incremental)

SpecFeed == InitFeed /\ [][NextFeed]_vars

----------------------------------------------------------------------------
(* One analyzer whose aggregates are exported *)

ExportTexts == {MixedText, <<"\n">>}
ExportLines == {LHit, LBypass}

\* to_dict() on the aggregate or snapshot id
ToDict(id) ==
    /\ exported' = <<[src |-> heap[id], data |-> to_dict(heap[id])]>>
    /\ UNCHANGED <<heap, metrics, returned, retVal, retText, fed, nops, raised, feed,
                   recLine, recResult, obs, stats>>
    /\ UNCHANGED <<appVars, configVars, reportVars, threadVars, analyzeVars>>

NextExport ==
    \/ \E a \in Analyzers, content \in ExportTexts : ProcessLogContent(a, content)
    \/ \E a \in Analyzers, line \in ExportLines : ProcessLogLine(a, line)
    \/ \E id \in DOMAIN heap : ToDict(id)

SpecExport == Init /\ [][NextExport]_vars

----------------------------------------------------------------------------
(* src/scripts/generate_report.py on the export of src/scripts/analyze_logs.py *)

\* The JSON document analyze_once writes for the export d of to_dict(); the
\* keys of a JSON object are those of the dict dumped
Document(d) ==
    [timestamp |-> "utcnow", container |-> "nginx-proxy",
     log_file |-> "/var/log/nginx/access.log", metrics |-> d]

Formats == {"markdown", "text", "html"}

\* The keys each generator reads from data['metrics'], in the order of the
\* first read of each
KeysRead ==
    [markdown |-> <<"hit_ratio", "p95_latency_ms", "error_rate", "total_requests",
                    "cache_hits", "cache_misses", "cache_bypass", "p50_latency_ms",
                    "p99_latency_ms", "total_bytes", "status_codes">>,
     text |-> <<"total_requests", "cache_hits", "hit_ratio", "cache_misses",
                "cache_bypass", "p50_latency_ms", "p95_latency_ms", "p99_latency_ms",
                "error_rate", "total_bytes", "status_codes">>,
     html |-> <<"hit_ratio", "total_requests", "cache_hits", "cache_misses",
                "p50_latency_ms", "p95_latency_ms", "p99_latency_ms", "status_codes">>]

\* generate_markdown_report, generate_text_report and generate_html_report on
\* the document data: metrics[key] raises KeyError at the first key read that
\* the metrics object lacks
generate_report(format, data) ==
    LET keys == KeysRead[format]
        missing == {i \in 1..Len(keys) : keys[i] \notin DOMAIN data.metrics}
    IN  IF missing = {} THEN [kind |-> "ok"]
        ELSE [kind |-> "KeyError", key |-> keys[Least(missing)]]

\* generate_report.py --format format on the latest export
GenerateReport(format) ==
    /\ exported # <<>>
    /\ report' = <<[format |-> format,
                    result |-> generate_report(format, Document(exported[1].data))]>>
    /\ UNCHANGED <<metricsVars, appVars, configVars, threadVars, analyzeVars>>

NextReport ==
    \/ NextExport
    \/ \E format \in Formats : GenerateReport(format)

SpecReport == Init /\ [][NextReport]_vars

----------------------------------------------------------------------------
(* process_log_line called from two threads on one analyzer *)

\* `x.f += n` is a read of x.f, an addition and a write of x.f; nothing in
\* process_log_line keeps another thread from running between the read and
\* the write (for total_bytes the call int(parsed['bytes']) lies between
\* them).  list.append is one indivisible operation.
Threads == {1, 2}

ThreadLines == {LHit, LMiss404, LBypass, LBadLat, LBanner}

\* The `+=` statements process_log_line runs on a record, in order
Updates(groups) ==
    LET tag == CacheStatusCounter(StripMemo[groups.cache_status])
        err == StatusCounter(IntMemo[groups.status])
    IN  <<[field |-> "total_requests", add |-> 1]>>
        \o (IF tag = "none" THEN <<>> ELSE <<[field |-> tag, add |-> 1]>>)
        \o (IF err = "none" THEN <<>> ELSE <<[field |-> err, add |-> 1]>>)
        \o <<[field |-> "total_bytes", add |-> IntMemo[groups.bytes]]>>

\* Variant: the addition is applied to the value the counter holds when
\* it is written
InplaceAdd_atomic(current, loaded, add) == current + add

\* The value `+=` writes: the value it read, plus the addend
InplaceAdd(current, loaded, add) == loaded + add

\* A call of process_log_line(line) on analyzer a at its first statement;
\* `if not parsed: return` ends it at once
Call(a, line) ==
    [self |-> a, line |-> line, k |-> 1,
     phase |-> IF ParseMemo[line].ok THEN "load" ELSE "done",
     temp |-> 0, read |-> <<>>]

\* The statement thread t is at
Update(t) == Updates(ParseMemo[threads[t].line].groups)[threads[t].k]

\* Two threads call process_log_line on analyzer a
Start(a, l1, l2) ==
    /\ threads = <<>>
    /\ threads' = [t \in Threads |-> Call(a, IF t = 1 THEN l1 ELSE l2)]
    /\ UNCHANGED <<metricsVars, appVars, configVars, reportVars, analyzeVars>>

\* Thread t reads the counter of its statement
ReadCounter(t) ==
    /\ threads # <<>> /\ threads[t].phase = "load"
    /\ \E u \in {Update(t)} :
       \E v \in {heap[metrics[threads[t].self]][u.field]} :
           threads' = [threads EXCEPT ![t].temp = v,
                                      ![t].read = (u.field :> v) @@ @,
                                      ![t].phase = "store"]
    /\ UNCHANGED <<metricsVars, appVars, configVars, reportVars, analyzeVars>>

\* Thread t writes the counter of its statement and goes on to the next
WriteCounter(t) ==
    /\ threads # <<>> /\ threads[t].phase = "store"
    /\ \E u \in {Update(t)}, ref \in {metrics[threads[t].self]} :
       /\ heap' = [heap EXCEPT ![ref][u.field] = InplaceAdd(@, threads[t].temp, u.add)]
       /\ threads' = [threads EXCEPT
              ![t].k = @ + 1,
              ![t].phase = IF threads[t].k = Len(Updates(ParseMemo[threads[t].line].groups))
                           THEN "append" ELSE "load"]
    /\ UNCHANGED <<metrics, returned, retVal, retText, fed, nops, raised, feed, exported,
                   recLine, recResult, obs, stats>>
    /\ UNCHANGED <<appVars, configVars, reportVars, analyzeVars>>

\* Thread t converts the latency, appends it and returns
AppendLatency(t) ==
    /\ threads # <<>> /\ threads[t].phase = "append"
    /\ \E ref \in {metrics[threads[t].self]} :
           heap' = [heap EXCEPT
                       ![ref] = AddLatency(@, ParseMemo[threads[t].line].groups.latency)]
    /\ threads' = [threads EXCEPT ![t].phase = "done"]
    /\ UNCHANGED <<metrics, returned, retVal, retText, fed, nops, raised, feed, exported,
                   recLine, recResult, obs, stats>>
    /\ UNCHANGED <<appVars, configVars, reportVars, analyzeVars>>

NextThreads ==
    \/ \E a \in Analyzers :
          nops = 0 /\ threads = <<>> /\ ProcessLogContent(a, Join(<<LHit, LMiss404>>))
    \/ \E a \in Analyzers, l1, l2 \in ThreadLines : Start(a, l1, l2)
    \/ \E t \in Threads : ReadCounter(t)
    \/ \E t \in Threads : WriteCounter(t)
    \/ \E t \in Threads : AppendLatency(t)

SpecThreads == Init /\ [][NextThreads]_vars

----------------------------------------------------------------------------
(* src/scripts/analyze_logs.py: one run of main without --watch *)

\* float('nan'), which argparse's type=float accepts for --min-hit-ratio
NaN == Frac(0, 0)

\* x < y on floats: False when either side is NaN
FloatLess(x, y) == x[2] # 0 /\ y[2] # 0 /\ x[1] * y[2] < y[1] * x[2]

\* --min-hit-ratio: the default 0.8 and other values
MinHitRatios == {Frac(0, 1), Frac(1, 2), Frac(4, 5), Frac(1, 1), NaN}

OutputFormats == {"json", "text", "summary", "prometheus"}

\* What docker logs delivers
AnalyzeLogs ==
    {<<>>, LBlank \o <<"\n">> \o LPadded, Join(<<LHit>>), Join(<<LMiss404>>), Join(<<LHit, LMiss404>>), MixedText,
     Join(<<LBadLat, LNotANumber>>), Join(<<LHit, LBigBytes, LMiss404>>)}

\* The command line and what the run meets outside the program: whether
\* docker inspect reports the container running, whether docker logs
\* succeeds and what it delivers, whether the --output path can be written
Runs ==
    [running : BOOLEAN, readable : BOOLEAN, log : AnalyzeLogs,
     format : OutputFormats, output : {"stdout", "file"}, writable : BOOLEAN,
     min_hit_ratio : MinHitRatios]

\* analyze_once(args): what it returns (or the exception it ends in) and
\* whether the metrics output was written
analyze_once(run) ==
    IF ~run.running THEN [result |-> "False", written |-> FALSE]
    ELSE IF ~run.readable THEN [result |-> "False", written |-> FALSE]
    ELSE IF Strip(run.log) = <<>> THEN [result |-> "False", written |-> FALSE]
    ELSE Eager(SplitMemo[run.log], LAMBDA lines :
         Eager(ResetMetrics(<<>>, <<0>>, 1), LAMBDA r :
         Eager(ProcessLines(r.heap, r.metrics[1], lines, 1)[r.metrics[1]], LAMBDA m :
           IF ContentRaises(lines) THEN [result |-> "False", written |-> FALSE]
           ELSE IF run.output = "file" /\ ~run.writable
                THEN [result |-> "OSError", written |-> FALSE]
           ELSE IF FloatLess(hit_ratio(m), run.min_hit_ratio)
                THEN [result |-> "False", written |-> TRUE, hit_ratio |-> hit_ratio(m)]
           ELSE [result |-> "True", written |-> TRUE, hit_ratio |-> hit_ratio(m)])))

\* sys.exit(0 if success else 1); an exception that leaves main ends the
\* interpreter with status 1
ExitStatus(outcome) == IF outcome.result = "True" THEN 0 ELSE 1

\* python analyze_logs.py --container c ... without --watch
Main(run) ==
    /\ analysis = <<>>
    /\ \E outcome \in {analyze_once(run)} :
           analysis' = <<[run |-> run, outcome |-> outcome, exit |-> ExitStatus(outcome)]>>
    /\ UNCHANGED <<metricsVars, appVars, configVars, reportVars, threadVars>>

NextAnalyze == \E run \in Runs : Main(run)

SpecAnalyze == Init /\ [][NextAnalyze]_vars

----------------------------------------------------------------------------
(* The record parser on one line *)

InitRecord ==
    /\ heap = <<>>
    /\ metrics = <<>>
    /\ returned = <<>>
    /\ retVal = <<>>
    /\ retText = <<>>
    /\ fed = <<>>
    /\ nops = 0
    /\ raised = <<>>
    /\ feed = <<>>
    /\ exported = <<>>
    /\ recLine \in RecordLines
    /\ recResult = <<>>
    /\ obs = <<>>
    /\ stats = <<>>
    /\ OthersIdle

\* parse_line(recLine)
ParseLine ==
    /\ recResult = <<>>
    /\ \E parsed \in {ParseMemo[recLine]} :
          recResult' = <<IF parsed.ok THEN groupdict(parsed.groups) ELSE PyNone>>
    /\ UNCHANGED <<heap, metrics, returned, retVal, retText, fed, nops, raised, feed,
                   exported, recLine, obs, stats>>
    /\ UNCHANGED <<appVars, configVars, reportVars, threadVars, analyzeVars>>

NextRecord == ParseLine

SpecRecord == InitRecord /\ [][NextRecord]_vars

----------------------------------------------------------------------------
(* The derived latencies as functions of the observation list *)

\* Latency tokens and the observations they parse to
LatTokens == {<<"0", ".", "0", "5", "0">>, <<".", "5">>, <<"2">>}
ObsValues == {ParseFloat(tok).val : tok \in LatTokens}

\* Long lists: k high observations followed by n - k low ones
LongLens == {19, 20, 21, 100, 101}
LongObs == {Rep(4000, k) \o Rep(100, n - k) : n \in LongLens, k \in {0, 1, 2, 5, 6}}

ObsLists == SeqsUpTo(ObsValues, MaxObs) \cup LongObs

WithLatencies(xs) == [CacheMetrics EXCEPT !.latencies = xs]

InitStats ==
    /\ heap = <<>>
    /\ metrics = <<>>
    /\ returned = <<>>
    /\ retVal = <<>>
    /\ retText = <<>>
    /\ fed = <<>>
    /\ nops = 0
    /\ raised = <<>>
    /\ feed = <<>>
    /\ exported = <<>>
    /\ recLine = <<>>
    /\ recResult = <<>>
    /\ obs \in ObsLists
    /\ stats = <<>>
    /\ OthersIdle

\* Reading p50_latency, p95_latency and p99_latency of an aggregate
ReadLatencies ==
    /\ stats = <<>>
    /\ stats' = <<[p50 |-> p50_latency(WithLatencies(obs)),
                   p95 |-> p95_latency(WithLatencies(obs)),
                   p99 |-> p99_latency(WithLatencies(obs))]>>
    /\ UNCHANGED <<heap, metrics, returned, retVal, retText, fed, nops, raised, feed,
                   exported, recLine, recResult, obs>>
    /\ UNCHANGED <<appVars, configVars, reportVars, threadVars, analyzeVars>>

NextStats == ReadLatencies

SpecStats == InitStats /\ [][NextStats]_vars

----------------------------------------------------------------------------
(* src/src/app.py: CachePolicy *)

\* No analyzer, no aggregate
MetricsIdle ==
    /\ heap = <<>>
    /\ metrics = <<>>
    /\ returned = <<>>
    /\ retVal = <<>>
    /\ retText = <<>>
    /\ fed = <<>>
    /\ nops = 0
    /\ raised = <<>>
    /\ feed = <<>>
    /\ exported = <<>>
    /\ recLine = <<>>
    /\ recResult = <<>>
    /\ obs = <<>>
    /\ stats = <<>>

\* str(n) for an integer n, as the f-string formats it
DigitChar(d) == CHOOSE c \in Digit : DigitVal(c) = d

RECURSIVE NatToStr(_)
NatToStr(n) ==
    IF n < 10 THEN <<DigitChar(n)>> ELSE NatToStr(n \div 10) \o <<DigitChar(n % 10)>>

IntToStr(n) == IF n < 0 THEN <<"-">> \o NatToStr(-n) ELSE NatToStr(n)

\* sep.join(parts)
RECURSIVE JoinWith(_, _)
JoinWith(parts, sep) ==
    IF parts = <<>> THEN <<>>
    ELSE IF Len(parts) = 1 THEN parts[1]
    ELSE parts[1] \o sep \o JoinWith(Tail(parts), sep)

\* Variant: no_store is honoured only when max_age is 0
to_header_nostorezero(p) ==
    IF p.no_store /\ p.max_age = 0
    THEN <<"n", "o", "-", "s", "t", "o", "r", "e", ",", " ",
           "n", "o", "-", "c", "a", "c", "h", "e", ",", " ",
           "m", "u", "s", "t", "-", "r", "e", "v", "a", "l", "i", "d", "a", "t", "e">>
    ELSE LET visibility == IF p.public THEN <<"p", "u", "b", "l", "i", "c">>
                           ELSE <<"p", "r", "i", "v", "a", "t", "e">>
             parts == <<visibility, <<"m", "a", "x", "-", "a", "g", "e", "=">>
                                    \o IntToStr(p.max_age)>>
                      \o (IF p.must_revalidate
                          THEN <<<<"m", "u", "s", "t", "-",
                                  "r", "e", "v", "a", "l", "i", "d", "a", "t", "e">>>>
                          ELSE <<>>)
         IN  JoinWith(parts, <<",", " ">>)

\* CachePolicy.to_header
to_header(p) ==
    IF p.no_store
    THEN <<"n", "o", "-", "s", "t", "o", "r", "e", ",", " ",
           "n", "o", "-", "c", "a", "c", "h", "e", ",", " ",
           "m", "u", "s", "t", "-", "r", "e", "v", "a", "l", "i", "d", "a", "t", "e">>
    ELSE LET visibility == IF p.public THEN <<"p", "u", "b", "l", "i", "c">>
                           ELSE <<"p", "r", "i", "v", "a", "t", "e">>
             parts == <<visibility, <<"m", "a", "x", "-", "a", "g", "e", "=">>
                                    \o IntToStr(p.max_age)>>
                      \o (IF p.must_revalidate
                          THEN <<<<"m", "u", "s", "t", "-",
                                  "r", "e", "v", "a", "l", "i", "d", "a", "t", "e">>>>
                          ELSE <<>>)
         IN  JoinWith(parts, <<",", " ">>)

\* The max_age values of the policies under test
MaxAges == {-3600, -100, -1, 0, 60, 100, 120, 300, 3600}

\* CachePolicy(max_age, must_revalidate, no_store, public)
Policies == [max_age : MaxAges, must_revalidate : BOOLEAN, no_store : BOOLEAN,
             public : BOOLEAN]

InitPolicy ==
    /\ MetricsIdle
    /\ policy \in Policies /\ header = <<>> /\ RequestIdle
    /\ ConfigIdle /\ ReportIdle /\ ThreadsIdle /\ AnalyzeIdle

\* policy.to_header()
ToHeader ==
    /\ header = <<>>
    /\ header' = <<to_header(policy)>>
    /\ UNCHANGED <<metricsVars, policy, appConfig, request, response, configVars, reportVars, threadVars, analyzeVars>>

NextPolicy == ToHeader

SpecPolicy == InitPolicy /\ [][NextPolicy]_vars

----------------------------------------------------------------------------
(* src/src/app.py: the request hooks of create_app *)

\* A path is the sequence of its segments: /api/static is <<"api", "static">>
\* and /api/static/ is <<"api", "static", "">>
CachePolicy(max_age, must_revalidate, no_store, public) ==
    [max_age |-> max_age, must_revalidate |-> must_revalidate, no_store |-> no_store,
     public |-> public]

\* CacheConfig.POLICIES
POLICIES ==
    (<<"api", "static">> :> CachePolicy(3600, FALSE, FALSE, TRUE))
    @@ (<<"api", "dynamic">> :> CachePolicy(60, TRUE, FALSE, TRUE))
    @@ (<<"api", "no-cache">> :> CachePolicy(0, FALSE, TRUE, TRUE))
    @@ (<<"api", "data">> :> CachePolicy(300, FALSE, FALSE, TRUE))

\* Variant: a path below a configured path gets the policy of that path
get_policy_prefix(path) ==
    LET above == {q \in DOMAIN POLICIES :
                     Len(q) <= Len(path) /\ SubSeq(path, 1, Len(q)) = q}
    IN  IF above = {} THEN PyNone ELSE POLICIES[CHOOSE q \in above : TRUE]

\* CacheConfig.get_policy: POLICIES.get(path)
get_policy(path) == IF path \in DOMAIN POLICIES THEN POLICIES[path] ELSE PyNone

\* The routes of the application and the method each accepts
Routes ==
    (<<"health">> :> "GET") @@ (<<"api", "static">> :> "GET")
    @@ (<<"api", "dynamic">> :> "GET") @@ (<<"api", "no-cache">> :> "GET")
    @@ (<<"api", "data">> :> "GET") @@ (<<"api", "invalidate">> :> "POST")

RequestPaths ==
    DOMAIN Routes
    \cup {<<"">>, <<"api", "unknown">>, <<"nonexistent">>, <<"unknown", "path">>,
          <<"api", "static", "extra">>, <<"api", "static", "">>, <<"API", "STATIC">>,
          <<"api", "no-cache", "">>}
RequestMethods == {"GET", "POST"}
Versions == {"1.0.0", "2.1.0"}

\* time.time() differences, in units of 1/10000 second
Durations == {0, 15, 12345}

\* f"{duration:.4f}" for a duration of d units
Fixed4(d) ==
    LET frac == NatToStr(d % 10000)
    IN  NatToStr(d \div 10000) \o <<".">> \o Rep("0", 4 - Len(frac)) \o frac

InitApp ==
    /\ MetricsIdle
    /\ policy = <<>>
    /\ header = <<>>
    /\ appConfig \in [VERSION : Versions]
    /\ request \in [path : RequestPaths, method : RequestMethods, started : {FALSE}]
    /\ response = <<>>
    /\ ConfigIdle
    /\ ReportIdle /\ ThreadsIdle /\ AnalyzeIdle

\* before_request: log_request records the start time
LogRequest ==
    /\ ~request.started
    /\ request' = [request EXCEPT !.started = TRUE]
    /\ UNCHANGED <<metricsVars, policy, header, appConfig, response, configVars, reportVars, threadVars, analyzeVars>>

\* The view of the route, or the handler of the routing error, makes the response
View ==
    /\ request.started
    /\ response = <<>>
    /\ response' =
          <<[status |-> IF request.path \notin DOMAIN Routes THEN 404
                        ELSE IF Routes[request.path] # request.method THEN 405
                        ELSE 200,
             headers |-> ("Content-Type" :> "application/json"),
             hooked |-> FALSE]>>
    /\ UNCHANGED <<metricsVars, policy, header, appConfig, request, configVars, reportVars, threadVars, analyzeVars>>

\* after_request: log_response sets the cache and tracking headers
LogResponse(duration) ==
    /\ response # <<>>
    /\ ~response[1].hooked
    /\ LET p == get_policy(request.path)
           cache == IF p # PyNone
                    THEN ("Cache-Control" :> to_header(p))
                         @@ ("X-Cache-Policy" :> IF p.max_age > 0 THEN "HIT" ELSE "BYPASS")
                    ELSE <<>>
           tracking == ("X-Response-Time" :> Fixed4(duration))
                       @@ ("X-Backend-Server" :> appConfig.VERSION)
       IN  response' = <<[response[1] EXCEPT
                             !.headers = tracking @@ cache @@ @,
                             !.hooked = TRUE]>>
    /\ UNCHANGED <<metricsVars, policy, header, appConfig, request, configVars, reportVars, threadVars, analyzeVars>>

NextApp ==
    \/ LogRequest
    \/ View
    \/ \E duration \in Durations : LogResponse(duration)

SpecApp == InitApp /\ [][NextApp]_vars

----------------------------------------------------------------------------
(* src/src/config.py: ConfigFacade *)

\* os.getenv(name, default) in the environment e
getenv(e, name, default) == IF name \in DOMAIN e THEN e[name] ELSE default

LowerSeq == <<"a", "b", "c", "d", "e", "f", "g", "h", "i", "j", "k", "l", "m",
              "n", "o", "p", "q", "r", "s", "t", "u", "v", "w", "x", "y", "z">>
UpperSeq == <<"A", "B", "C", "D", "E", "F", "G", "H", "I", "J", "K", "L", "M",
              "N", "O", "P", "Q", "R", "S", "T", "U", "V", "W", "X", "Y", "Z">>

\* The characters of s found in from replaced by those of to at the same place
Recase(s, from, to) ==
    [i \in 1..Len(s) |->
        IF \E k \in 1..Len(from) : from[k] = s[i]
        THEN to[CHOOSE k \in 1..Len(from) : from[k] = s[i]]
        ELSE s[i]]

\* str.upper() and str.lower()
ToUpper(s) == Recase(s, LowerSeq, UpperSeq)
ToLower(s) == Recase(s, UpperSeq, LowerSeq)

\* int(text): surrounding whitespace and one sign are accepted; ValueError
\* (ok = FALSE) unless the rest is a non-empty run of digits within the limit
PyIntOf(text) ==
    LET t == Strip(text)
        signed == t # <<>> /\ t[1] \in {"+", "-"}
        ds == IF signed THEN Tail(t) ELSE t
    IN  IF ds = <<>> \/ ~(Range(ds) \subseteq Digit) \/ IntRaises(ds) THEN [ok |-> FALSE]
        ELSE [ok |-> TRUE,
              val |-> IF signed /\ t[1] = "-" THEN 0 - ParseInt(ds) ELSE ParseInt(ds)]

\* AppConfig(...) from the environment e, as object id; ok = FALSE when int() raises
LoadApp(e, id) ==
    LET port == PyIntOf(getenv(e, "BACKEND_PORT", <<"8", "0", "8", "0">>)) IN
    IF ~port.ok THEN [ok |-> FALSE, text |-> getenv(e, "BACKEND_PORT", <<"8", "0", "8", "0">>)]
    ELSE [ok |-> TRUE,
          obj |-> [id |-> id, type |-> "AppConfig",
                   host |-> getenv(e, "BACKEND_HOST", <<"0", ".", "0", ".", "0", ".", "0">>),
                   port |-> port.val,
                   debug |-> ToLower(getenv(e, "FLASK_DEBUG", <<"f", "a", "l", "s", "e">>)) = <<"t", "r", "u", "e">>,
                   version |-> getenv(e, "APP_VERSION", <<"1", ".", "0", ".", "0">>),
                   log_level |-> getenv(e, "LOG_LEVEL", <<"I", "N", "F", "O">>)]]

\* NginxConfig(...) from the environment e
LoadNginx(e, id) ==
    LET port == PyIntOf(getenv(e, "NGINX_PORT", <<"8", "0">>)) IN
    IF ~port.ok THEN [ok |-> FALSE, text |-> getenv(e, "NGINX_PORT", <<"8", "0">>)]
    ELSE [ok |-> TRUE,
          obj |-> [id |-> id, type |-> "NginxConfig",
                   host |-> getenv(e, "NGINX_HOST", <<"0", ".", "0", ".", "0", ".", "0">>),
                   port |-> port.val,
                   cache_path |-> getenv(e, "NGINX_CACHE_PATH", "/var/cache/nginx"),
                   cache_size |-> getenv(e, "NGINX_CACHE_SIZE", <<"1", "0", "0", "m">>),
                   cache_max_size |-> getenv(e, "NGINX_CACHE_MAX_SIZE", <<"1", "g">>),
                   cache_inactive |-> getenv(e, "NGINX_CACHE_INACTIVE", <<"6", "0", "m">>)]]

\* MetricsConfig(...) from the environment e
LoadMetrics(e, id) ==
    LET port == PyIntOf(getenv(e, "METRICS_PORT", <<"9", "0", "9", "0">>))
        interval == PyIntOf(getenv(e, "METRICS_SCRAPE_INTERVAL", <<"6", "0">>))
    IN  IF ~port.ok THEN [ok |-> FALSE, text |-> getenv(e, "METRICS_PORT", <<"9", "0", "9", "0">>)]
        ELSE IF ~interval.ok
        THEN [ok |-> FALSE, text |-> getenv(e, "METRICS_SCRAPE_INTERVAL", <<"6", "0">>)]
        ELSE [ok |-> TRUE,
              obj |-> [id |-> id, type |-> "MetricsConfig",
                       enabled |-> ToLower(getenv(e, "METRICS_ENABLED", <<"t", "r", "u", "e">>)) = <<"t", "r", "u", "e">>,
                       log_file |-> getenv(e, "NGINX_LOG_FILE", "/var/log/nginx/access.log"),
                       metrics_port |-> port.val,
                       scrape_interval |-> interval.val]]

Sections == {"app", "nginx", "metrics"}

Load(sec, e, id) ==
    CASE sec = "app" -> LoadApp(e, id)
      [] sec = "nginx" -> LoadNginx(e, id)
      [] sec = "metrics" -> LoadMetrics(e, id)

\* ConfigFacade()
ConfigFacade == [app |-> PyNone, nginx |-> PyNone, metrics |-> PyNone, made |-> 0]

\* Variant: the section is built from the environment at every access
Access_nocache(f, e, sec) ==
    Eager(Load(sec, e, f.made + 1), LAMBDA r :
        IF r.ok THEN [ok |-> TRUE, obj |-> r.obj,
                      facade |-> [f EXCEPT ![sec] = r.obj, !.made = @ + 1]]
        ELSE [ok |-> FALSE, text |-> r.text, facade |-> f])

\* The properties app, nginx and metrics: the section is built from the
\* environment when the facade holds none, and kept; int() raising leaves none
Access(f, e, sec) ==
    IF f[sec] # PyNone THEN [ok |-> TRUE, obj |-> f[sec], facade |-> f]
    ELSE Eager(Load(sec, e, f.made + 1), LAMBDA r :
             IF r.ok THEN [ok |-> TRUE, obj |-> r.obj,
                           facade |-> [f EXCEPT ![sec] = r.obj, !.made = @ + 1]]
             ELSE [ok |-> FALSE, text |-> r.text, facade |-> f])

\* Variant: port 0 is accepted
PortValid_zero(port) == 0 <= port /\ port <= 65535

\* 1 <= port <= 65535
PortValid(port) == 1 <= port /\ port <= 65535

valid_levels == {<<"D", "E", "B", "U", "G">>, <<"I", "N", "F", "O">>, <<"W", "A", "R", "N", "I", "N", "G">>, <<"E", "R", "R", "O", "R">>, <<"C", "R", "I", "T", "I", "C", "A", "L">>}

\* The message of the ValueError int(text) raises
InvalidLiteral(text) ==
    <<"i", "n", "v", "a", "l", "i", "d", " ", "l", "i", "t", "e", "r", "a", "l", " ", "f", "o", "r", " ", "i", "n", "t", "(", ")", " ", "w", "i", "t", "h", " ", "b", "a", "s", "e", " ", "1", "0", ":", " ", "'">>
    \o text \o <<"'">>

\* ConfigFacade.validate on the facade f in the environment e: how the call
\* ends, the facade it leaves and the sections it has read
validate(f, e) ==
    Eager(Access(f, e, "app"), LAMBDA a :
    IF ~a.ok THEN [kind |-> "ValueError", message |-> InvalidLiteral(a.text),
                   facade |-> a.facade, read |-> {}]
    ELSE Eager(Access(a.facade, e, "nginx"), LAMBDA n :
    IF ~n.ok THEN [kind |-> "ValueError", message |-> InvalidLiteral(n.text),
                   facade |-> n.facade, read |-> {"app"}]
    ELSE Eager(Access(n.facade, e, "metrics"), LAMBDA m :
    IF ~m.ok THEN [kind |-> "ValueError", message |-> InvalidLiteral(m.text),
                   facade |-> m.facade, read |-> {"app", "nginx"}]
    ELSE LET errors ==
                 (IF ~PortValid(a.obj.port)
                  THEN <<<<"I", "n", "v", "a", "l", "i", "d", " ", "a", "p", "p", " ", "p", "o", "r", "t", ":", " ">> \o IntToStr(a.obj.port)>>
                  ELSE <<>>)
                 \o (IF ~PortValid(n.obj.port)
                     THEN <<<<"I", "n", "v", "a", "l", "i", "d", " ", "n", "g", "i", "n", "x", " ", "p", "o", "r", "t", ":", " ">> \o IntToStr(n.obj.port)>>
                     ELSE <<>>)
                 \o (IF ~PortValid(m.obj.metrics_port)
                     THEN <<<<"I", "n", "v", "a", "l", "i", "d", " ", "m", "e", "t", "r", "i", "c", "s", " ", "p", "o", "r", "t", ":", " ">>
                            \o IntToStr(m.obj.metrics_port)>>
                     ELSE <<>>)
                 \o (IF ToUpper(a.obj.log_level) \notin valid_levels
                     THEN <<<<"I", "n", "v", "a", "l", "i", "d", " ", "l", "o", "g", " ", "l", "e", "v", "e", "l", ":", " ">> \o a.obj.log_level>>
                     ELSE <<>>)
         IN  IF errors # <<>>
             THEN [kind |-> "ValueError",
                   message |-> <<"C", "o", "n", "f", "i", "g", "u", "r", "a", "t", "i", "o", "n", " ", "e", "r", "r", "o", "r", "s", ":", " ">>
                               \o JoinWith(errors, <<",", " ">>),
                   facade |-> m.facade, read |-> Sections]
             ELSE [kind |-> "True", facade |-> m.facade, read |-> Sections])))

\* The values the environment variables take
EnvValues ==
    [BACKEND_PORT |-> {<<"0">>, <<"6", "5", "5", "3", "5">>, <<"a", "b", "c">>},
     NGINX_PORT |-> {<<"6", "5", "5", "3", "6">>, <<"1">>},
     METRICS_PORT |-> {<<"-", "1">>},
     LOG_LEVEL |-> {<<"d", "e", "b", "u", "g">>, <<"I", "N", "V", "A", "L", "I", "D", "_", "L", "E", "V", "E", "L">>}]

\* The environments: each variable unset or set to one of its values
Envs ==
    UNION {[names -> UNION {EnvValues[n] : n \in names}] : names \in SUBSET DOMAIN EnvValues}

InitConfig ==
    /\ MetricsIdle
    /\ AppIdle
    /\ ReportIdle /\ ThreadsIdle /\ AnalyzeIdle
    /\ env \in {e \in Envs : \A n \in DOMAIN e : e[n] \in EnvValues[n]}
    /\ facade = ConfigFacade
    /\ cfgReads = [sec \in Sections |-> <<>>]
    /\ cfgResult = <<>>
    /\ cfgOps = 0

\* The record of the reads of a section after one more read, in the
\* environment e, returned obj
Noted(reads, obj, e) ==
    IF reads = <<>> THEN <<[first |-> obj, latest |-> obj, env |-> e, count |-> 1]>>
    ELSE <<[reads[1] EXCEPT !.latest = obj, !.count = 2]>>

\* os.environ[name] = value
SetEnv(name, value) ==
    /\ cfgOps < MaxCfgOps
    /\ env' = (name :> value) @@ env
    /\ cfgOps' = cfgOps + 1
    /\ UNCHANGED <<metricsVars, appVars, reportVars, threadVars, analyzeVars, facade, cfgReads, cfgResult>>

\* del os.environ[name]
UnsetEnv(name) ==
    /\ cfgOps < MaxCfgOps
    /\ name \in DOMAIN env
    /\ env' = [n \in DOMAIN env \ {name} |-> env[n]]
    /\ cfgOps' = cfgOps + 1
    /\ UNCHANGED <<metricsVars, appVars, reportVars, threadVars, analyzeVars, facade, cfgReads, cfgResult>>

\* Reading facade.app, facade.nginx or facade.metrics
ReadSection(sec) ==
    /\ cfgOps < MaxCfgOps
    /\ \E r \in {Access(facade, env, sec)} :
       /\ facade' = r.facade
       /\ cfgReads' = IF ~r.ok THEN cfgReads
                      ELSE [cfgReads EXCEPT ![sec] = Noted(@, r.obj, env)]
    /\ cfgOps' = cfgOps + 1
    /\ UNCHANGED <<metricsVars, appVars, reportVars, threadVars, analyzeVars, env, cfgResult>>

\* facade.validate()
Validate ==
    /\ cfgOps < MaxCfgOps
    /\ \E r \in {validate(facade, env)} :
       /\ facade' = r.facade
       /\ cfgResult' = <<[kind |-> r.kind,
                          message |-> IF r.kind = "True" THEN <<>> ELSE r.message,
                          facade |-> r.facade]>>
       /\ cfgReads' = [sec \in Sections |->
                         IF sec \in r.read THEN Noted(cfgReads[sec], r.facade[sec], env)
                         ELSE cfgReads[sec]]
    /\ cfgOps' = cfgOps + 1
    /\ UNCHANGED <<metricsVars, appVars, reportVars, threadVars, analyzeVars, env>>

NextConfig ==
    \/ \E name \in DOMAIN EnvValues : \E value \in EnvValues[name] : SetEnv(name, value)
    \/ \E name \in DOMAIN EnvValues : UnsetEnv(name)
    \/ \E sec \in Sections : ReadSection(sec)
    \/ Validate

SpecConfig == InitConfig /\ [][NextConfig]_vars

----------------------------------------------------------------------------
(* Properties *)

Last(q) == q[Len(q)]

\* The line matches the record grammar
Matches(line) == ParseMemo[line].ok

\* Number of lines of ls that match the record grammar
MatchCount(ls) == Cardinality({k \in 1..Len(ls) : Matches(ls[k])})

\* Number of matching lines of ls whose trimmed tag is tag
TagCount(ls, tag) ==
    Cardinality({k \in 1..Len(ls) :
        Matches(ls[k]) /\ Strip(ParseMemo[ls[k]].groups.cache_status) = tag})

SixTags == {HIT, MISS, BYPASS, STALE, UPDATING, REVALIDATED}

\* Number of matching lines of ls whose trimmed tag is none of the six
UnrecognizedCount(ls) ==
    Cardinality({k \in 1..Len(ls) :
        Matches(ls[k]) /\ Strip(ParseMemo[ls[k]].groups.cache_status) \notin SixTags})

SixSum(m) == m.cache_hits + m.cache_misses + m.cache_bypass + m.cache_stale
             + m.cache_updating + m.cache_revalidated

\* The lines given to analyzer a since its aggregate was created: those of
\* the text of its latest process_log_content, then those of process_log_line
Folded(a) ==
    (IF returned[a] = <<>> THEN <<>> ELSE SplitMemo[retText[Last(returned[a])]])
    \o fed[a]

\* The value a's aggregate had before the first line of fed[a]
Base(a) == IF returned[a] = <<>> THEN CacheMetrics ELSE retVal[Last(returned[a])]

InUnit(x) == x[2] > 0 /\ 0 <= x[1] /\ x[1] <= x[2]

AllBlank(t) == \A k \in 1..Len(SplitMemo[t]) : Strip(SplitMemo[t][k]) = <<>>

BlankText == <<" ", "\r", "\n", "\t", "\n", "\n", " ">>

\* C1: two snapshots returned by process_log_content for the same text are
\* equal in every counter and in the observation list, whichever analyzer
\* returned them and whatever that analyzer processed before (a fresh
\* analyzer included)
C1_NoCrossRunLeakage ==
    \A i, j \in DOMAIN retVal : retText[i] = retText[j] => retVal[i] = retVal[j]

\* An analyzer processed text A then a different text B, a fresh analyzer
\* processed B only, both texts holding records
C1_Witness ==
    \E a, b \in DOMAIN metrics :
        /\ a # b /\ nops = 3
        /\ Len(returned[a]) = 2 /\ Len(returned[b]) = 1
        /\ retText[returned[a][2]] = retText[returned[b][1]]
        /\ retText[returned[a][1]] # retText[returned[a][2]]
        /\ retVal[returned[a][1]].total_requests > 0
        /\ retVal[returned[a][2]].total_requests > 0

\* C2 as stated: a snapshot that was returned keeps the value it had when
\* it was returned
C2_ReturnedSnapshotUntouched ==
    \A id \in DOMAIN retVal : heap[id] = retVal[id]

\* C2 amended: the latest snapshot an analyzer returned is the aggregate the
\* analyzer still refers to, and every matching line given to
\* process_log_line afterwards raises its total_requests by one
C2_ReturnedSnapshotIsCurrentAggregate ==
    \A a \in DOMAIN metrics :
        returned[a] # <<>> =>
            LET id == Last(returned[a]) IN
            /\ id = metrics[a]
            /\ heap[id].total_requests = retVal[id].total_requests + MatchCount(fed[a])

\* A matching line was given to process_log_line after a snapshot was returned
C2_Witness ==
    \E a \in DOMAIN metrics :
        /\ returned[a] # <<>>
        /\ MatchCount(fed[a]) > 0
        /\ heap[Last(returned[a])].total_requests
               > retVal[Last(returned[a])].total_requests

\* C3 as stated: the line whose latency is 'notanumber' (status 200, bytes
\* 100, tag HIT) raises total_requests and cache_hits and adds no observation
C3_NotANumberCounted ==
    \A a \in DOMAIN metrics :
        fed[a] = <<LNotANumber>> =>
            /\ heap[metrics[a]].total_requests = Base(a).total_requests + 1
            /\ heap[metrics[a]].cache_hits = Base(a).cache_hits + 1
            /\ Len(heap[metrics[a]].latencies) = Len(Base(a).latencies)

\* C3 amended: the line whose latency is 'notanumber' does not match the
\* grammar and changes nothing; the line whose latency is the digits-and-dots
\* token '1.2.3' (status 200, bytes 100, tag HIT) raises total_requests and
\* cache_hits and adds no observation
C3_BadLatencyCounted ==
    \A a \in DOMAIN metrics :
        /\ fed[a] = <<LNotANumber>> => heap[metrics[a]] = Base(a)
        /\ fed[a] = <<LBadLat>> =>
            /\ heap[metrics[a]].total_requests = Base(a).total_requests + 1
            /\ heap[metrics[a]].cache_hits = Base(a).cache_hits + 1
            /\ Len(heap[metrics[a]].latencies) = Len(Base(a).latencies)

\* The '1.2.3' line was folded into an aggregate that holds observations
C3_Witness ==
    \E a \in DOMAIN metrics :
        /\ fed[a] = <<LBadLat>>
        /\ Base(a).latencies # <<>>
        /\ heap[metrics[a]].cache_hits = Base(a).cache_hits + 1

\* C4: the total_requests of a returned snapshot is the number of lines of
\* the text that match the record grammar
C4_TotalIsMatchedLines ==
    \A id \in DOMAIN retVal :
        retVal[id].total_requests = MatchCount(SplitMemo[retText[id]])

\* A text with blank lines, a banner, an error record and a record whose
\* latency is not numeric
C4_Witness ==
    \E id \in DOMAIN retVal :
        /\ retText[id] = MixedText
        /\ retVal[id].total_requests = 4
        /\ Len(SplitMemo[retText[id]]) = 7

\* C5: the six cache-status counters sum to at most total_requests, and the
\* difference is the number of folded records whose tag is empty or not
\* recognized, so the sum equals total_requests exactly when there is none
C5_StatusCountersBounded ==
    /\ \A id \in DOMAIN heap : SixSum(heap[id]) <= heap[id].total_requests
    /\ \A a \in DOMAIN metrics :
        LET m == heap[metrics[a]] IN
        /\ m.total_requests - SixSum(m) = UnrecognizedCount(Folded(a))
        /\ (SixSum(m) = m.total_requests) <=> (UnrecognizedCount(Folded(a)) = 0)

\* An aggregate with recognized and unrecognized records
C5_Witness ==
    \E a \in DOMAIN metrics :
        /\ UnrecognizedCount(Folded(a)) > 0
        /\ heap[metrics[a]].cache_misses > 0
        /\ SixSum(heap[metrics[a]]) < heap[metrics[a]].total_requests

\* C6: hit_ratio is a well-defined value in [0, 1], and it is 0.0 when
\* cache_hits + cache_misses = 0
C6_HitRatioInUnit ==
    \A id \in DOMAIN heap :
        /\ InUnit(hit_ratio(heap[id]))
        /\ heap[id].cache_hits + heap[id].cache_misses = 0
               => hit_ratio(heap[id]) = Zero

\* No HIT and no MISS while other counters are not zero
C6_Witness ==
    \E id \in DOMAIN heap :
        /\ heap[id].cache_hits + heap[id].cache_misses = 0
        /\ heap[id].cache_bypass > 0
        /\ heap[id].total_requests > 0
        /\ hit_ratio(heap[id]) = Zero

\* C7: hit_ratio is hits / (hits + misses) counted on the HIT and MISS
\* records alone, whatever other records were folded
C7_HitRatioFromHitMissOnly ==
    \A a \in DOMAIN metrics :
        LET h == TagCount(Folded(a), HIT)
            ms == TagCount(Folded(a), MISS)
        IN  hit_ratio(heap[metrics[a]]) = IF h + ms = 0 THEN Zero ELSE Frac(h, h + ms)

\* HIT, MISS and other records in one aggregate
C7_Witness ==
    \E a \in DOMAIN metrics :
        /\ TagCount(Folded(a), HIT) > 0
        /\ TagCount(Folded(a), MISS) > 0
        /\ heap[metrics[a]].total_requests
               > heap[metrics[a]].cache_hits + heap[metrics[a]].cache_misses
        /\ hit_ratio(heap[metrics[a]]) # Zero

\* C8: error_4xx + error_5xx <= total_requests, error_rate is a well-defined
\* value in [0, 1], and it is 0.0 when total_requests = 0
C8_ErrorRateInUnit ==
    \A id \in DOMAIN heap :
        /\ heap[id].error_4xx + heap[id].error_5xx <= heap[id].total_requests
        /\ InUnit(error_rate(heap[id]))
        /\ heap[id].total_requests = 0 => error_rate(heap[id]) = Zero

\* 4xx, 5xx and other records in one aggregate
C8_Witness ==
    \E id \in DOMAIN heap :
        /\ heap[id].error_4xx > 0
        /\ heap[id].error_5xx > 0
        /\ heap[id].error_4xx + heap[id].error_5xx < heap[id].total_requests

C10_BlankTextAllZero ==
    \A id \in DOMAIN retVal :
        AllBlank(retText[id]) =>
            /\ retVal[id] = CacheMetrics
            /\ hit_ratio(retVal[id]) = Zero
            /\ error_rate(retVal[id]) = Zero
            /\ p50_latency(retVal[id]) = 0
            /\ p95_latency(retVal[id]) = 0
            /\ p99_latency(retVal[id]) = 0

\* A blank text processed after a text with records
C10_Witness ==
    \E a \in DOMAIN metrics :
        /\ Len(returned[a]) = 2
        /\ retText[returned[a][2]] = BlankText
        /\ retVal[returned[a][1]].total_requests > 0
        /\ retVal[returned[a][2]].total_requests = 0

\* C11 as stated: no call of process_log_content or process_log_line ends in
\* an error, whatever digit runs the status and bytes fields hold
C11_NoCallEndsInError == \A a \in DOMAIN raised : raised[a] = "none"

\* The caller of process_log_content is done
BlockDone == returned[Block] # <<>> \/ raised[Block] # "none"

\* The caller feeding lines is done: every line was fed or a call raised
FeedDone == raised[Incremental] # "none" \/ Len(fed[Incremental]) = Len(SplitMemo[feed])

\* C12: once a fresh analyzer has been fed every line of a text, in order,
\* through process_log_line, its aggregate equals, in every counter and in
\* the observation sequence, the snapshot process_log_content returns for
\* the text; and when process_log_content ends in ValueError the feeding
\* ends in ValueError with the same aggregate
C12_IncrementalAgreesWithBlock ==
    (BlockDone /\ FeedDone) =>
        /\ heap[metrics[Incremental]] = heap[metrics[Block]]
        /\ raised[Incremental] = raised[Block]
        /\ returned[Block] # <<>> =>
               heap[metrics[Incremental]] = retVal[Last(returned[Block])]

\* The text with blank lines, a banner, several line breaks and a latency
\* that is not numeric was fed line by line and processed as a block
C12_Witness ==
    /\ feed = MixedText
    /\ Len(fed[Incremental]) = 7
    /\ returned[Block] # <<>>
    /\ heap[metrics[Incremental]].total_requests = 4
    /\ Len(heap[metrics[Incremental]].latencies) = 3

RawCounters == {"total_requests", "cache_hits", "cache_misses", "cache_bypass",
                "cache_stale", "cache_updating", "cache_revalidated", "error_5xx",
                "error_4xx", "total_bytes"}

DerivedKeys == {"hit_ratio", "error_rate", "p50_latency", "p95_latency", "p99_latency"}

\* C13: the export of an aggregate holds the ten raw counters with the
\* values of the aggregate, under latencies the number of observations (not
\* the list), hit_ratio, error_rate, p50_latency, p95_latency and
\* p99_latency equal to the derived statistics of the aggregate, and no
\* other key
C13_ExportKeysAndValues ==
    exported # <<>> =>
        LET m == exported[1].src
            d == exported[1].data
        IN  /\ DOMAIN d = RawCounters \cup {"latencies"} \cup DerivedKeys
            /\ \A c \in RawCounters : d[c] = m[c]
            /\ d.latencies = Len(m.latencies)
            /\ d.hit_ratio = hit_ratio(m)
            /\ d.error_rate = error_rate(m)
            /\ d.p50_latency = p50_latency(m)
            /\ d.p95_latency = p95_latency(m)
            /\ d.p99_latency = p99_latency(m)

\* An aggregate with several observations and errors was exported
C13_Witness ==
    /\ exported # <<>>
    /\ exported[1].src.total_requests = 4
    /\ Len(exported[1].src.latencies) = 3
    /\ exported[1].data.latencies = 3
    /\ exported[1].data.error_rate = Frac(2, 4)
    /\ exported[1].data.p95_latency > exported[1].data.p50_latency

\* The snapshot process_log_content returns for text on an analyzer of its own
Alone(text) == ProcessLines(<<CacheMetrics>>, 1, SplitMemo[text], 1)[1]

\* Analyzer b made no call in the step
Idle(b) == metrics'[b] = metrics[b] /\ fed'[b] = fed[b]

\* C14: a call on one analyzer leaves the aggregate of every other analyzer,
\* and the snapshots the other analyzers returned, unchanged in every counter
\* and in the observation list; and every snapshot process_log_content
\* returned, whatever calls on other analyzers came in between, is the one
\* it returns for the text on an analyzer of its own
C14_InstancesIndependent ==
    /\ [][\A b \in DOMAIN metrics :
            Idle(b) =>
                /\ heap'[metrics[b]] = heap[metrics[b]]
                /\ returned'[b] = returned[b]
                /\ \A id \in Range(returned[b]) : heap'[id] = heap[id]]_vars
    /\ [](\A id \in DOMAIN retVal : retVal[id] = Alone(retText[id]))

\* Two analyzers returned snapshots of different texts, and a record was
\* then folded into one of them while the other kept its value
C14_Witness ==
    \E a, b \in DOMAIN metrics :
        /\ a # b
        /\ Len(returned[a]) = 1 /\ Len(returned[b]) = 1
        /\ retText[returned[a][1]] # retText[returned[b][1]]
        /\ retVal[returned[b][1]].total_requests > 0
        /\ MatchCount(fed[a]) > 0
        /\ heap[returned[a][1]] # retVal[returned[a][1]]
        /\ heap[returned[b][1]] = retVal[returned[b][1]]

GroupNames == {"ip", "time", "method", "path", "protocol", "status", "bytes",
               "latency", "cache_status"}

\* C15 as stated: on a full match the record parse_line returns holds status
\* and bytes as integers and latency as a floating-point number
C15_ParsedFieldsAreNumbers ==
    (recResult # <<>> /\ Matches(recLine)) =>
        /\ recResult[1].status.type = "int"
        /\ recResult[1].bytes.type = "int"
        /\ recResult[1].latency.type = "float"

\* C15 amended: on a full match parse_line returns the nine named groups,
\* each as the matched text: status and bytes are non-empty runs of digits,
\* latency a non-empty run of digits and dots.  The numbers are made by
\* process_log_line when it folds the record: int(bytes) is what it adds to
\* total_bytes and float(latency), when it converts, the observation.  A
\* line that does not match gives None
C15_ParsedFieldsAreText ==
    recResult # <<>> =>
        IF Matches(recLine)
        THEN LET r == recResult[1]
                 m == FoldLine(CacheMetrics, recLine)
             IN  /\ DOMAIN r = GroupNames
                 /\ \A g \in GroupNames : r[g].type = "str"
                 /\ r.status.val # <<>> /\ Range(r.status.val) \subseteq Digit
                 /\ r.bytes.val # <<>> /\ Range(r.bytes.val) \subseteq Digit
                 /\ r.latency.val # <<>> /\ Range(r.latency.val) \subseteq Digit \cup {"."}
                 /\ m.total_bytes = ParseInt(r.bytes.val)
                 /\ m.latencies = IF ParseFloat(r.latency.val).ok
                                  THEN <<ParseFloat(r.latency.val).val>> ELSE <<>>
        ELSE recResult[1] = PyNone

\* parse_line returned a record whose latency is the text 1.2.3
C15_Witness ==
    /\ recResult # <<>>
    /\ Matches(recLine)
    /\ recResult[1].status = PyStr(<<"4", "0", "4">>)
    /\ recResult[1].bytes = PyStr(<<"1", "0", "0">>)
    /\ recResult[1].latency = PyStr(<<"1", ".", "2", ".", "3">>)
    /\ recResult[1].cache_status = PyStr(<<" ", "H", "I", "T", " ">>)

\* t is a prefix of s
StartsWith(s, t) == Len(t) <= Len(s) /\ Sub(s, 1, Len(t)) = t

\* t occurs in s
Contains(s, t) == \E i \in 1..(Len(s) - Len(t) + 1) : Sub(s, i, i + Len(t) - 1) = t

\* The decimal text t is how str writes the integer n
ReadsAs(t, n) ==
    LET ds == IF t # <<>> /\ t[1] = "-" THEN Tail(t) ELSE t IN
    /\ ds # <<>> /\ Range(ds) \subseteq Digit
    /\ (ds[1] = "0" => Len(ds) = 1)
    /\ n = (IF ds = t THEN ParseInt(ds) ELSE 0 - ParseInt(ds))

TextPublic == <<"p", "u", "b", "l", "i", "c">>
TextPrivate == <<"p", "r", "i", "v", "a", "t", "e">>
TextMaxAge == <<",", " ", "m", "a", "x", "-", "a", "g", "e", "=">>
TextMustRevalidate == <<",", " ", "m", "u", "s", "t", "-", "r", "e", "v", "a", "l", "i", "d", "a", "t", "e">>
TextNoStore == <<"n", "o", "-", "s", "t", "o", "r", "e", ",", " ",
                "n", "o", "-", "c", "a", "c", "h", "e", ",", " ",
                "m", "u", "s", "t", "-", "r", "e", "v", "a", "l", "i", "d", "a", "t", "e">>

\* C16: to_header is "no-store, no-cache, must-revalidate" when no_store is
\* set, whatever the other fields; otherwise it is "public" or "private" by
\* the public flag, then ", max-age=" and max_age in decimal, then
\* ", must-revalidate" exactly when must_revalidate is set, and nothing else
C16_ToHeaderReference ==
    header # <<>> =>
        LET h == header[1]
            vis == IF policy.public THEN TextPublic ELSE TextPrivate
            pre == vis \o TextMaxAge
            rest == Sub(h, Len(pre) + 1, Len(h))
            cut == Len(rest) - Len(TextMustRevalidate)
        IN  IF policy.no_store THEN h = TextNoStore
            ELSE /\ StartsWith(h, pre)
                 /\ IF policy.must_revalidate
                    THEN /\ cut >= 1
                         /\ Sub(rest, cut + 1, Len(rest)) = TextMustRevalidate
                         /\ ReadsAs(Sub(rest, 1, cut), policy.max_age)
                    ELSE ReadsAs(rest, policy.max_age)

\* to_header was called on a policy with no_store and every other field set
C16_Witness ==
    /\ header # <<>>
    /\ policy = [max_age |-> 3600, must_revalidate |-> TRUE, no_store |-> TRUE,
                 public |-> TRUE]
    /\ ~Contains(header[1], TextMaxAge)
    /\ ~Contains(header[1], TextPublic)

PolicyPaths == {<<"api", "static">>, <<"api", "dynamic">>, <<"api", "no-cache">>,
                <<"api", "data">>}

\* C17: the response the after-request hook has handled carries
\* Cache-Control and X-Cache-Policy exactly when the request path is one of
\* the four policy paths, and they are absent before the hook; Cache-Control
\* is then to_header() of the policy of the path and X-Cache-Policy is HIT
\* when its max_age > 0 and BYPASS otherwise; X-Response-Time and
\* X-Backend-Server are on every handled response
C17_CacheHeadersByPath ==
    response # <<>> =>
        LET hs == response[1].headers
            configured == request.path \in PolicyPaths
        IN  IF ~response[1].hooked
            THEN {"Cache-Control", "X-Cache-Policy"} \cap DOMAIN hs = {}
            ELSE /\ ("Cache-Control" \in DOMAIN hs) <=> configured
                 /\ ("X-Cache-Policy" \in DOMAIN hs) <=> configured
                 /\ configured =>
                       /\ hs["Cache-Control"] = to_header(POLICIES[request.path])
                       /\ hs["X-Cache-Policy"] =
                              IF POLICIES[request.path].max_age > 0 THEN "HIT" ELSE "BYPASS"
                 /\ {"X-Response-Time", "X-Backend-Server"} \subseteq DOMAIN hs
                 /\ hs["X-Backend-Server"] = appConfig.VERSION

\* A request with the wrong method for /api/no-cache was answered with the
\* no-store header and BYPASS
C17_Witness ==
    /\ response # <<>>
    /\ response[1].hooked
    /\ request.path = <<"api", "no-cache">>
    /\ response[1].status = 405
    /\ response[1].headers["Cache-Control"] = TextNoStore
    /\ response[1].headers["X-Cache-Policy"] = "BYPASS"
    /\ response[1].headers["X-Response-Time"] = <<"0", ".", "0", "0", "1", "5">>

\* C18: once a section of a ConfigFacade has been read, every later read
\* returns the same object with the values the environment gave at the first
\* read, whatever the environment has become; the facade keeps that object
C18_SectionsReadOnce ==
    \A sec \in Sections :
        cfgReads # <<>> /\ cfgReads[sec] # <<>> =>
            LET r == cfgReads[sec][1] IN
            /\ r.latest = r.first
            /\ facade[sec] = r.first
            /\ Load(sec, r.env, r.first.id).ok
            /\ Load(sec, r.env, r.first.id).obj = r.first

\* A section read twice, the environment now giving it other values
C18_Witness ==
    /\ cfgReads # <<>>
    /\ \E sec \in Sections :
          /\ cfgReads[sec] # <<>>
          /\ cfgReads[sec][1].count = 2
          /\ env # cfgReads[sec][1].env
          /\ Load(sec, env, cfgReads[sec][1].first.id).ok
          /\ Load(sec, env, cfgReads[sec][1].first.id).obj # cfgReads[sec][1].latest

\* The same letter, in either case
SameLetter(c, d) ==
    c = d \/ \E k \in 1..Len(LowerSeq) : {c, d} = {LowerSeq[k], UpperSeq[k]}

\* level is, case-insensitively, one of the five level names
LevelNamed(level) ==
    \E name \in {<<"D", "E", "B", "U", "G">>, <<"I", "N", "F", "O">>, <<"W", "A", "R", "N", "I", "N", "G">>, <<"E", "R", "R", "O", "R">>, <<"C", "R", "I", "T", "I", "C", "A", "L">>} :
        /\ Len(name) = Len(level)
        /\ \A i \in 1..Len(name) : SameLetter(name[i], level[i])

\* The items validate checks on the facade f whose sections are all loaded,
\* each with the words that name it and whether it is violated
Violations(f) ==
    {[words |-> <<"I", "n", "v", "a", "l", "i", "d", " ", "a", "p", "p", " ", "p", "o", "r", "t">>, violated |-> f.app.port \notin 1..65535],
     [words |-> <<"I", "n", "v", "a", "l", "i", "d", " ", "n", "g", "i", "n", "x", " ", "p", "o", "r", "t">>, violated |-> f.nginx.port \notin 1..65535],
     [words |-> <<"I", "n", "v", "a", "l", "i", "d", " ", "m", "e", "t", "r", "i", "c", "s", " ", "p", "o", "r", "t">>,
      violated |-> f.metrics.metrics_port \notin 1..65535],
     [words |-> <<"I", "n", "v", "a", "l", "i", "d", " ", "l", "o", "g", " ", "l", "e", "v", "e", "l">>, violated |-> ~LevelNamed(f.app.log_level)]}

C20_ReportSucceeds ==
    /\ exported # <<>> =>
          \A format \in Formats :
              Range(KeysRead[format]) \subseteq DOMAIN exported[1].data
    /\ report # <<>> => report[1].result.kind = "ok"

\* The latency token of a matching line does not convert: it has more than
\* one dot, or no digit
BadLatency(line) ==
    LET tok == ParseMemo[line].groups.latency IN
    Cardinality({i \in 1..Len(tok) : tok[i] = "."}) > 1
    \/ \A i \in 1..Len(tok) : tok[i] = "."

\* The record of line with the latency token 0.050 in place of its own
ValidTwin(line) ==
    LET g == ParseMemo[line].groups IN
    RecLine(g.status, g.bytes, <<"0", ".", "0", "5", "0">>, g.cache_status)

\* C21: a record whose latency token fails conversion leaves the aggregate
\* as the same record with a valid latency does, except that no observation
\* is added: total_requests, the tag counter, the error counter and
\* total_bytes are raised alike
C21_BadLatencyStillFolded ==
    \A a \in DOMAIN metrics :
        Len(fed[a]) = 1 /\ Matches(fed[a][1]) /\ BadLatency(fed[a][1]) =>
            LET twin == FoldLine(Base(a), ValidTwin(fed[a][1])) IN
            /\ twin.latencies = Append(Base(a).latencies, 100)
            /\ twin.total_requests = Base(a).total_requests + 1
            /\ twin.total_bytes = Base(a).total_bytes + 7
            /\ heap[metrics[a]] = [twin EXCEPT !.latencies = Base(a).latencies]

\* A 5xx MISS record with the latency '.' folded into a filled aggregate
C21_Witness ==
    \E a \in DOMAIN metrics :
        /\ Len(fed[a]) = 1 /\ Matches(fed[a][1]) /\ BadLatency(fed[a][1])
        /\ ParseMemo[fed[a][1]].groups.latency = <<".">>
        /\ Base(a).latencies # <<>>
        /\ heap[metrics[a]].error_5xx = Base(a).error_5xx + 1
        /\ heap[metrics[a]].cache_misses = Base(a).cache_misses + 1

\* t is tok without its leading and trailing whitespace
Trimmed(tok, t) ==
    \E i \in 0..Len(tok) :
        /\ i + Len(t) <= Len(tok)
        /\ \A k \in 1..Len(tok) :
              IF i < k /\ k <= i + Len(t) THEN tok[k] = t[k - i]
              ELSE tok[k] \in Whitespace
        /\ t # <<>> => t[1] \notin Whitespace /\ t[Len(t)] \notin Whitespace

\* The counter of each of the six tags
TagField ==
    (HIT :> "cache_hits") @@ (MISS :> "cache_misses") @@ (BYPASS :> "cache_bypass")
    @@ (STALE :> "cache_stale") @@ (UPDATING :> "cache_updating")
    @@ (REVALIDATED :> "cache_revalidated")

\* What the one line folded by analyzer a added to the counter field
Raised(a, field) == heap[metrics[a]][field] - Base(a)[field]

\* C22: folding one record raises by one the counter of the trimmed tag when
\* that is exactly one of the six tags and leaves the other five as they
\* were; when the trimmed tag is empty or anything else, another letter case
\* included, none of the six changes
C22_OneTagCounterPerRecord ==
    \A a \in DOMAIN metrics :
        Len(fed[a]) = 1 /\ Matches(fed[a][1]) =>
            \E t \in SixTags \cup {<<>>} \cup FoldTags :
                /\ Trimmed(ParseMemo[fed[a][1]].groups.cache_status, t)
                /\ \A tag \in SixTags :
                      Raised(a, TagField[tag]) = IF tag = t THEN 1 ELSE 0

\* The tag ' HIT ' counted as HIT, folded into a filled aggregate
C22_Witness ==
    \E a \in DOMAIN metrics :
        /\ Len(fed[a]) = 1 /\ Matches(fed[a][1])
        /\ Base(a).cache_hits > 0
        /\ ParseMemo[fed[a][1]].groups.cache_status = <<" ">> \o HIT \o <<" ">>
        /\ Raised(a, "cache_hits") = 1
        /\ SixSum(heap[metrics[a]]) = SixSum(Base(a)) + 1

\* C23: folding one record with status s raises error_5xx by one exactly
\* when s is in 500..599 and error_4xx by one exactly when s is in 400..499;
\* every other s, below 400 or from 600 up, raises neither, and no record
\* raises both
C23_ErrorClassByStatus ==
    \A a \in DOMAIN metrics :
        Len(fed[a]) = 1 /\ Matches(fed[a][1]) =>
            LET s == ParseInt(ParseMemo[fed[a][1]].groups.status) IN
            /\ Raised(a, "error_5xx") = IF s \in 500..599 THEN 1 ELSE 0
            /\ Raised(a, "error_4xx") = IF s \in 400..499 THEN 1 ELSE 0
            /\ Raised(a, "error_5xx") + Raised(a, "error_4xx") <= 1

\* A record with status 600 folded into an aggregate that holds a 4xx and a
\* 5xx record
C23_Witness ==
    \E a \in DOMAIN metrics :
        /\ Len(fed[a]) = 1 /\ Matches(fed[a][1])
        /\ ParseMemo[fed[a][1]].groups.status = <<"6", "0", "0">>
        /\ Base(a).error_4xx > 0 /\ Base(a).error_5xx > 0
        /\ heap[metrics[a]].total_requests = Base(a).total_requests + 1
        /\ Raised(a, "error_5xx") + Raised(a, "error_4xx") = 0

\* v is the element at index k, from 0, of xs sorted ascending
AtRank(xs, k, v) ==
    /\ \E j \in 1..Len(xs) : xs[j] = v
    /\ Cardinality({j \in 1..Len(xs) : xs[j] < v}) <= k
    /\ k < Cardinality({j \in 1..Len(xs) : xs[j] <= v})

\* index, or the last index of a list of n elements when index >= n
Clamped(index, n) == IF index >= n THEN n - 1 ELSE index

\* C24: for n >= 1 observations, P95 and P99 are the elements of the sorted
\* list at the indexes floor(n * 0.95) and floor(n * 0.99) from 0, the last
\* element standing in for an index >= n, so both are observations; P50 is
\* the middle element for odd n and the mean of the two middle elements for
\* even n
C24_RankIndexPercentiles ==
    stats # <<>> /\ obs # <<>> =>
        LET n == Len(obs) IN
        /\ AtRank(obs, Clamped((n * 95) \div 100, n), stats[1].p95)
        /\ AtRank(obs, Clamped((n * 99) \div 100, n), stats[1].p99)
        /\ n % 2 = 1 => AtRank(obs, (n - 1) \div 2, stats[1].p50)
        /\ n % 2 = 0 =>
              \E lo, hi \in {obs[j] : j \in 1..Len(obs)} :
                  /\ AtRank(obs, n \div 2 - 1, lo)
                  /\ AtRank(obs, n \div 2, hi)
                  /\ 2 * stats[1].p50 = lo + hi

\* 21 observations, one of them high: index 19 holds a low one and index 20
\* the high one
C24_Witness ==
    /\ stats # <<>>
    /\ Len(obs) = 21
    /\ stats[1].p50 = 100 /\ stats[1].p95 = 100 /\ stats[1].p99 = 4000

Counters ==
    {"total_requests", "cache_hits", "cache_misses", "cache_bypass", "cache_stale",
     "cache_updating", "cache_revalidated", "error_4xx", "error_5xx", "total_bytes"}

\* The aggregate m2 is m with counters raised and observations appended
GrownFrom(m, m2) ==
    /\ \A c \in Counters : m[c] <= m2[c]
    /\ Len(m.latencies) <= Len(m2.latencies)
    /\ \A k \in 1..Len(m.latencies) : m2.latencies[k] = m.latencies[k]

\* C25: no step lowers a counter of an aggregate or removes or changes one
\* of its observations: every counter and the number of observations never
\* decrease and the observation list only grows at its end
C25_AggregateOnlyGrows ==
    [][\A id \in DOMAIN heap \cap DOMAIN heap' : GrownFrom(heap[id], heap'[id])]_vars

\* Three records folded one after another into one aggregate, the last of
\* them without an observation
C25_Witness ==
    \E a \in DOMAIN metrics :
        /\ Len(fed[a]) = 3
        /\ heap[metrics[a]].total_requests = 3
        /\ Len(heap[metrics[a]].latencies) = 2
        /\ fed[a][3] = LBadLat

\* C26: process_log_line on a line that does not match the record grammar,
\* the empty line and a line of blanks included, returns without raising
\* and leaves total_requests, every other counter and the observation list
\* as they were
C26_UnmatchedLineCountedNowhere ==
    \A a \in DOMAIN metrics :
        Len(fed[a]) = 1 /\ ~Matches(fed[a][1]) =>
            /\ raised[a] = "none"
            /\ \A c \in Counters : heap[metrics[a]][c] = Base(a)[c]
            /\ heap[metrics[a]].latencies = Base(a).latencies

\* The empty line passed to process_log_line on a filled aggregate
C26_Witness ==
    \E a \in DOMAIN metrics :
        /\ fed[a] = <<(<<>>)>>
        /\ ~Matches(fed[a][1])
        /\ Base(a).total_requests > 0 /\ Base(a).latencies # <<>>
        /\ heap[metrics[a]].total_requests = Base(a).total_requests

\* Both calls have returned
BothDone == threads # <<>> /\ \A t \in Threads : threads[t].phase = "done"

\* C27: the `+=` of process_log_line is a read and a later write with no
\* lock between them.  When two calls on one analyzer have returned, a
\* counter both raise by one has grown by 1, not 2, exactly when both read
\* it before either wrote it (both read the same value); total_bytes has
\* then grown by the addend of one call only; and no observation is lost
C27_LostUpdateWhenReadsCoincide ==
    BothDone =>
        LET a == threads[1].self
            r1 == threads[1].read
            r2 == threads[2].read
        IN  /\ \A f \in (DOMAIN r1 \cap DOMAIN r2) \ {"total_bytes"} :
                  Raised(a, f) = IF r1[f] = r2[f] THEN 1 ELSE 2
            /\ Matches(threads[1].line) /\ Matches(threads[2].line) =>
                  LET b1 == ParseInt(ParseMemo[threads[1].line].groups.bytes)
                      b2 == ParseInt(ParseMemo[threads[2].line].groups.bytes)
                  IN  IF r1.total_bytes = r2.total_bytes
                      THEN Raised(a, "total_bytes") \in {b1, b2}
                      ELSE Raised(a, "total_bytes") = b1 + b2
            /\ Len(heap[metrics[a]].latencies) - Len(Base(a).latencies)
                   = Cardinality({t \in Threads :
                         Matches(threads[t].line) /\ ~BadLatency(threads[t].line)})

\* Two calls on matching lines have returned and total_requests has grown
\* by 1: one update is lost, on a filled aggregate
C27_Witness ==
    /\ BothDone
    /\ Matches(threads[1].line) /\ Matches(threads[2].line)
    /\ Base(threads[1].self).total_requests = 2
    /\ Raised(threads[1].self, "total_requests") = 1
    /\ Raised(threads[1].self, "total_bytes")
          = ParseInt(ParseMemo[threads[1].line].groups.bytes)
            + ParseInt(ParseMemo[threads[2].line].groups.bytes)

\* C28: a process_log_content call on an analyzer makes a new object the
\* analyzer's aggregate; every snapshot the analyzer returned before keeps
\* all its counters and its observation list through the call, and the
\* snapshot the call returns is none of the earlier ones
C28_ContentCallReplacesAggregate ==
    [][\A a \in DOMAIN metrics :
          returned'[a] # returned[a] \/ metrics'[a] # metrics[a] =>
              /\ metrics'[a] \notin DOMAIN heap
              /\ \A id \in Range(returned[a]) \cap DOMAIN heap' : heap'[id] = heap[id]
              /\ returned'[a] # returned[a] =>
                    /\ Last(returned'[a]) \notin Range(returned[a])
                    /\ Last(returned'[a]) = metrics'[a]]_vars

\* An analyzer returned a snapshot with records, was given a further line
\* and returned a second, different snapshot: the first one still holds
\* what it held before the second call
C28_Witness ==
    \E a \in DOMAIN metrics :
        /\ Len(returned[a]) = 2 /\ nops = 3 /\ fed[a] = <<>>
        /\ returned[a][1] # returned[a][2]
        /\ retVal[returned[a][1]].total_requests = 2
        /\ heap[returned[a][1]].total_requests = 3
        /\ heap[returned[a][2]].total_requests = 1

\* The largest element of a non-empty list
MaxOf(xs) == CHOOSE v \in Range(xs) : \A w \in Range(xs) : w <= v

\* C30: for n >= 1 observations the indexes floor(n * 0.95) and
\* floor(n * 0.99) are below n, so P95 and P99 are the elements of the sorted
\* list at those very indexes and the last element never has to stand in;
\* P95 is the largest observation when n < 20 and P99 is when n < 100
C30_IndexWithinList ==
    stats # <<>> /\ obs # <<>> =>
        LET n == Len(obs) IN
        /\ Idx95(n) < n /\ Idx99(n) < n
        /\ AtRank(obs, (n * 95) \div 100, stats[1].p95)
        /\ AtRank(obs, (n * 99) \div 100, stats[1].p99)
        /\ n < 20 => stats[1].p95 = MaxOf(obs)
        /\ n < 100 => stats[1].p99 = MaxOf(obs)

\* 19 observations, one of them high: P95 is index 18, the high one
C30_Witness ==
    /\ stats # <<>>
    /\ Len(obs) = 19
    /\ stats[1].p50 = 100
    /\ stats[1].p95 = 4000 /\ stats[1].p95 = MaxOf(obs)

\* x >= y on floats: False when either side is NaN
FloatAtLeast(x, y) == x[2] # 0 /\ y[2] # 0 /\ x[1] * y[2] >= y[1] * x[2]

\* The container runs, the log is read, is not blank and is processed
\* without an exception
Processed(run) ==
    /\ run.running /\ run.readable
    /\ Strip(run.log) # <<>>
    /\ ~ContentRaises(SplitMemo[run.log])

\* C29: a single run ends with exit status 0 if and only if the container
\* is running, the log read succeeds, the text is not blank, processing
\* raises nothing and the snapshot's hit_ratio >= min_hit_ratio; every other
\* run ends with exit status 1; and when only the hit ratio fails, the
\* metrics output was written before
C29_SuccessIffAllChecksPass ==
    analysis # <<>> =>
        LET run == analysis[1].run
            ratio == hit_ratio(Alone(run.log))
        IN  /\ analysis[1].exit \in {0, 1}
            /\ analysis[1].exit = 0
                   <=> Processed(run) /\ FloatAtLeast(ratio, run.min_hit_ratio)
            /\ Processed(run) /\ ~FloatAtLeast(ratio, run.min_hit_ratio)
                   => analysis[1].outcome.written

====
